---------------------------- MODULE Spec2Model ----------------------------
(***************************************************************************)
(* A model of the browser-side utility layer of admin_portal               *)
(* (src/app/static/js/script.js and its variants under src/unnamed):       *)
(* date/week identifiers, the localStorage-backed customer, product and    *)
(* callsheet repositories, customer normalisation and the product display  *)
(* string.                                                                 *)
(*                                                                         *)
(* JavaScript strings whose characters matter (week identifiers, product   *)
(* names, codes and queries) are sequences of one-character strings.       *)
(* Dates are day numbers: whole days since 1970-01-01, the value of a JS   *)
(* Date at midnight divided by 86400000.                                   *)
(***************************************************************************)
EXTENDS Integers, Sequences, FiniteSets, TLC

VARIABLES
    dateArg,      \* the Date passed to getWeekIdentifier (a day number)
    dateRet,      \* what getWeekIdentifier returned for it, or NotCalled
    cust,         \* the customer object passed to normalizeCustomer
    custBefore,   \* that object as it was before the call
    normalized,   \* normalizeCustomer(cust)
    renormalized, \* normalizeCustomer(normalizeCustomer(cust))
    normPc,       \* "start", "once" (normalized) or "twice" (renormalized)
    prodArg,      \* the product {name, code} passed to formatProductWithCode
    prodStr,      \* its display string
    prodParsed,   \* parseProductString of the display string
    prodPc,       \* "start", "formatted" or "parsed"
    storage,      \* localStorage: key -> the stored text, or NoItem
    now,          \* the clock: the day number new Date() yields
    call,         \* the last call of a repository function: its name,
                  \* arguments, return value and whether it threw
    lastSaved     \* history: name -> the customer of the latest saveCustomer
                  \* call with that name that returned

\* The search inputs of a page (src/unnamed/part_000, part_001, part_002):
VARIABLES
    variant,      \* the copy of the file the page loads: "part_000" or "part_002"
    layout,       \* the search inputs in document order
    fields,       \* the value of each form field
    timers,       \* the pending setTimeout timers, with the time left to each
    customerSearchTimeout, \* part_000: the handle of the last customer timer
    productSearchTimeout,  \* part_000: the handle of the last product timer
    searchTimeoutOf,       \* part_002: input -> its _searchTimeout handle
    inflight,     \* the lookups issued and not yet answered
    dropdowns,    \* input -> the dropdown elements in its container, in order
    currentSelectedCustomer, \* part_000: what getSelectedCustomer() returns
    addressSelector, \* the addresses the address selector was rendered with
    onSelectCalls,   \* history: the arguments of the onSelect callback's calls
    issued,       \* history: the number of lookups issued
    lastInput,    \* history: input -> its latest input event
    eventCount,   \* history: the number of input, blur and click events so far
    uiEvent       \* the last event handled

\* The address formatted by formatAddressDisplay:
VARIABLES
    addressArg,   \* the address passed
    addressText   \* what formatAddressDisplay returned for it, or NotCalled

VARIABLES
    selVariant,   \* the copy of the file that rendered the address selector
    selector,     \* the address selector in its container
    addressInput, \* the value of the address display field
    hidden,       \* hidden field name -> the values of the form's fields of that name
    selEvent,     \* the last event of the address selector
    selCount,     \* history: the number of those events
    validateCall, \* the arguments and the result of validateForm, or NoValidation
    writer        \* each saveCustomer in progress: its place, what it read

VARIABLES
    dateCall,     \* the last call of getMondayOfWeek or getWeekNumber, or NoDateCall
    debouncer,    \* a function returned by debounce, its timer and its calls
    custSel       \* a selector returned by initCustomerSelector and its form

dateVars == <<dateArg, dateRet, dateCall>>
utilVars == <<debouncer, custSel>>
normVars == <<cust, custBefore, normalized, renormalized, normPc>>
prodVars == <<prodArg, prodStr, prodParsed, prodPc>>
storeVars == <<storage, now, call, lastSaved>>
uiVars == <<variant, layout, fields, timers, customerSearchTimeout,
            productSearchTimeout, searchTimeoutOf, inflight, dropdowns,
            currentSelectedCustomer, addressSelector, onSelectCalls, issued,
            lastInput, eventCount, uiEvent>>
addressVars == <<addressArg, addressText>>
selVars == <<selVariant, selector, addressInput, hidden, selEvent, selCount>>
extVars == <<selVars, validateCall, writer>>
restVars == <<uiVars, addressVars, extVars>>
vars == <<dateVars, utilVars, normVars, prodVars, storeVars, restVars>>

\* A result not yet computed.
NotCalled == <<"not called">>

-----------------------------------------------------------------------------
(* Bounds of the date inputs: the days in the modern window and in the      *)
(* window around 1 January 1000.                                            *)

MaxModernDays == 1480
MaxEdgeDays == 21

-----------------------------------------------------------------------------
(* Calendar arithmetic of the JS Date object (proleptic Gregorian).         *)

\* Date.UTC(y, m, d) / 86400000 for a month m in 1..12 and any day d.
DaysFromCivil(y, m, d) ==
    LET yy  == IF m <= 2 THEN y - 1 ELSE y
        era == yy \div 400
        yoe == yy - era * 400
        mp  == (m + 9) % 12
        doy == (153 * mp + 2) \div 5 + d - 1
        doe == yoe * 365 + yoe \div 4 - yoe \div 100 + doy
    IN  era * 146097 + doe - 719468

\* The calendar fields [y, m, d] of day number n.
CivilOf(n) ==
    LET z   == n + 719468
        era == z \div 146097
        doe == z - era * 146097
        yoe == (doe - doe \div 1460 + doe \div 36524 - doe \div 146096) \div 365
        doy == doe - (365 * yoe + yoe \div 4 - yoe \div 100)
        mp  == (5 * doy + 2) \div 153
        d   == doy - (153 * mp + 2) \div 5 + 1
        m   == IF mp < 10 THEN mp + 3 ELSE mp - 9
        y   == yoe + era * 400 + (IF m <= 2 THEN 1 ELSE 0)
    IN  [y |-> y, m |-> m, d |-> d]

\* The day numbers the model's dates lie in, with a margin of two weeks.
ModernFirst == DaysFromCivil(2022, 12, 19)
EdgeFirst == DaysFromCivil(999, 12, 20)
DayRange ==
    ((ModernFirst - 14) .. (ModernFirst + MaxModernDays + 14))
    \cup ((EdgeFirst - 14) .. (EdgeFirst + MaxEdgeDays + 14))

\* CivilOf tabulated over DayRange, so that each date is converted once.
CivilTable == [n \in DayRange |-> CivilOf(n)]

\* getFullYear, getMonth + 1 and getDate of day number n.
CivilFromDays(n) == CivilTable[n]

getFullYear(n) == CivilFromDays(n).y

\* Date.prototype.getDay / getUTCDay: 0 is Sunday; 1970-01-01 was a Thursday.
getDay(n) == (n + 4) % 7

\* Date.prototype.setDate / setUTCDate(dayOfMonth): the day of the month is set
\* within n's month, values outside the month rolling into the neighbours.
setDate(n, dayOfMonth) ==
    LET c == CivilFromDays(n) IN DaysFromCivil(c.y, c.m, 1) + dayOfMonth - 1

\* Math.ceil(a / b) for b > 0.
Ceil(a, b) == -((-a) \div b)

-----------------------------------------------------------------------------
(* String helpers.                                                         *)

Digits == <<"0", "1", "2", "3", "4", "5", "6", "7", "8", "9">>

RECURSIVE NatToString(_)
\* String(n) for an integer n >= 0.
NatToString(n) ==
    IF n < 10 THEN <<Digits[n + 1]>>
    ELSE Append(NatToString(n \div 10), Digits[(n % 10) + 1])

\* String(n) of a template literal.
IntToString(n) == IF n < 0 THEN <<"-">> \o NatToString(-n) ELSE NatToString(n)

\* s.padStart(2, "0")
padStart2(s) == IF Len(s) >= 2 THEN s ELSE IF Len(s) = 1 THEN <<"0">> \o s ELSE <<"0", "0">>

-----------------------------------------------------------------------------
(* DATE UTILITIES                                                          *)

\* A plausible slip: Sunday treated like the other days (diff ... + 1).
getMondayOfWeek_SundayForward(date) ==
    LET day  == getDay(date)
        diff == CivilFromDays(date).d - day + 1
    IN  setDate(date, diff)

getMondayOfWeek(date) ==
    LET day  == getDay(date)
        diff == CivilFromDays(date).d - day + (IF day = 0 THEN -6 ELSE 1)
    IN  setDate(date, diff)

\* A plausible slip: the week counted from the date itself, not its Thursday.
getWeekNumber_NoThursday(date) ==
    LET c         == CivilFromDays(date)
        d         == DaysFromCivil(c.y, c.m, c.d)
        yearStart == DaysFromCivil(getFullYear(d), 1, 1)
    IN  Ceil((d - yearStart) + 1, 7)

getWeekNumber(date) ==
    LET c         == CivilFromDays(date)
        d0        == DaysFromCivil(c.y, c.m, c.d)
        dayNum    == IF getDay(d0) = 0 THEN 7 ELSE getDay(d0)
        d         == setDate(d0, CivilFromDays(d0).d + 4 - dayNum)
        yearStart == DaysFromCivil(getFullYear(d), 1, 1)
    \* (d - yearStart) / 86400000 is the difference of two UTC midnights in days,
    \* which is the difference of the day numbers.
    IN  Ceil((d - yearStart) + 1, 7)

getWeekIdentifier(date) ==
    LET monday  == getMondayOfWeek(date)
        weekNum == getWeekNumber(monday)
    IN  IntToString(getFullYear(monday)) \o <<"-", "W">> \o padStart2(IntToString(weekNum))

-----------------------------------------------------------------------------
(* CUSTOMER UTILITIES: normalizeCustomer                                   *)
(* A customer object is a function from the names of the properties it     *)
(* has to their values; null and undefined are the records below.          *)

Null == [null |-> TRUE]
Undefined == [undefined |-> TRUE]

LegacyFields == {"street", "city", "state", "zip", "country"}

\* customer.f || ""
OrEmpty(customer, f) == IF f \in DOMAIN customer THEN customer[f] ELSE ""

\* Array.isArray(customer.addresses) && customer.addresses.length > 0
HasAddresses(customer) ==
    "addresses" \in DOMAIN customer /\ Len(customer["addresses"]) > 0

PrimaryAddress(customer) ==
    [label   |-> "Primary",
     street  |-> OrEmpty(customer, "street"),
     city    |-> OrEmpty(customer, "city"),
     state   |-> OrEmpty(customer, "state"),
     zip     |-> OrEmpty(customer, "zip"),
     country |-> OrEmpty(customer, "country")]

\* A plausible slip: no test for existing addresses, the synthesized address
\* pushed onto whatever list is there.
normalizeCustomer_Push(customer) ==
    IF customer \in {Null, Undefined} THEN Null
    ELSE [f \in DOMAIN customer \cup {"addresses"} |->
            IF f = "addresses"
            THEN (IF "addresses" \in DOMAIN customer THEN customer["addresses"] ELSE <<>>)
                     \o <<PrimaryAddress(customer)>>
            ELSE customer[f]]

\* A plausible slip: a missing legacy field left out instead of becoming "".
normalizeCustomer_NoDefault(customer) ==
    IF customer \in {Null, Undefined} THEN Null
    ELSE IF HasAddresses(customer) THEN customer
    ELSE [f \in DOMAIN customer \cup {"addresses"} |->
            IF f = "addresses"
            THEN <<[g \in {"label"} \cup (DOMAIN customer \cap LegacyFields) |->
                      IF g = "label" THEN "Primary" ELSE customer[g]]>>
            ELSE customer[f]]

normalizeCustomer(customer) ==
    IF customer \in {Null, Undefined} THEN Null
    ELSE IF HasAddresses(customer) THEN customer
    ELSE \* normalized = { ...customer }; normalized.addresses = [ ... ]
         [f \in DOMAIN customer \cup {"addresses"} |->
            IF f = "addresses" THEN <<PrimaryAddress(customer)>> ELSE customer[f]]

\* The argument object after normalizeCustomer returned: every assignment of the
\* function goes to the copy { ...customer }, none to customer.
ArgAfterNormalize(customer) == customer

-----------------------------------------------------------------------------
(* PRODUCT CODE UTILITIES                                                  *)

\* The characters of the modelled strings: a letter, a blank, a line feed and
\* the two brackets.
Alphabet == {"a", " ", "\n", "[", "]"}

\* \s of a regular expression and the characters trim() removes.
IsSpace(ch) == ch \in {" ", "\n"}

\* The characters the regular expression's . does not match.
IsLineTerminator(ch) == ch = "\n"

RECURSIVE trimStart(_)
trimStart(s) ==
    IF s # <<>> /\ IsSpace(Head(s)) THEN trimStart(Tail(s)) ELSE s

RECURSIVE trimEnd(_)
trimEnd(s) ==
    IF s # <<>> /\ IsSpace(s[Len(s)]) THEN trimEnd(SubSeq(s, 1, Len(s) - 1)) ELSE s

\* String.prototype.trim
trim(s) == trimEnd(trimStart(s))

\* A plausible slip: the brackets added whether or not there is a code.
formatProductWithCode_Always(product) ==
    IF product = Null THEN <<>>
    ELSE product.name \o <<" ", "[">> \o product.code \o <<"]">>

formatProductWithCode(product) ==
    IF product = Null THEN <<>>
    ELSE IF product.code # <<>>
         THEN product.name \o <<" ", "[">> \o product.code \o <<"]">>
         ELSE product.name

\* The index of the first character after position i of s that is not
\* whitespace: where \s* stops. Len(s) + 1 when there is none.
SkipSpace(s, i) ==
    LET rest == {j \in (i + 1)..Len(s) : ~IsSpace(s[j])}
    IN  IF rest = {} THEN Len(s) + 1
        ELSE CHOOSE j \in rest : \A k \in rest : j <= k

\* Whether /^(.+?)\s*\[([^\]]+)\]$/ matches s with (.+?) taking the first i
\* characters. "[" is no whitespace, so \s* must take every blank up to it, and
\* [^\]]+ must reach the last character, which must be "]".
MatchesWithPrefix(s, i) ==
    LET j == SkipSpace(s, i)
    IN  /\ i >= 1
        /\ \A k \in 1..i : ~IsLineTerminator(s[k])
        /\ j <= Len(s) /\ s[j] = "["
        /\ Len(s) >= j + 2
        /\ s[Len(s)] = "]"
        /\ \A k \in (j + 1)..(Len(s) - 1) : s[k] # "]"

\* productString.match(/^(.+?)\s*\[([^\]]+)\]$/): the groups, with (.+?) as short
\* as a match allows, or <<>> when there is no match.
MatchProductString(s) ==
    LET prefixes == {i \in 1..Len(s) : MatchesWithPrefix(s, i)}
    IN  IF prefixes = {} THEN <<>>
        ELSE LET i == CHOOSE i \in prefixes : \A k \in prefixes : i <= k
                 j == SkipSpace(s, i)
             IN  <<SubSeq(s, 1, i), SubSeq(s, j + 1, Len(s) - 1)>>

parseProductString(productString) ==
    IF productString = <<>> THEN [name |-> <<>>, code |-> <<>>]
    ELSE LET match == MatchProductString(productString)
         IN  IF match # <<>>
             THEN [name |-> trim(match[1]), code |-> trim(match[2])]
             ELSE [name |-> trim(productString), code |-> <<>>]

-----------------------------------------------------------------------------
(* LOCALSTORAGE UTILITIES                                                  *)
(* localStorage maps each key to a text or holds no item for it. The text  *)
(* JSON.stringify yields for a JSON value v is the record [json |-> v],     *)
(* which JSON.parse turns back into v.                                      *)

StorageKeys == {"customerDatabase", "productDatabase", "callsheets"}

NoItem == [item |-> FALSE]

JSONStringify(value) == [item |-> TRUE, json |-> value]
JSONParse(text) == text.json

\* A stored text that is not JSON: JSON.parse throws a SyntaxError on it.
Unparsable == [item |-> TRUE, unparsable |-> TRUE]
Parses(text) == "json" \in DOMAIN text

\* The empty object {} and its use as a mapping from property names to values.
EmptyObject == <<>>
HasProperty(obj, key) == key \in DOMAIN obj
SetProperty(obj, key, value) == (key :> value) @@ obj

\* raises: the store raises an error when it is accessed during this call.
getLocalStorage(store, key, defaultValue, raises) ==
    IF raises THEN defaultValue
    ELSE IF store[key] = NoItem THEN defaultValue
    ELSE IF Parses(store[key]) THEN JSONParse(store[key])
    ELSE defaultValue

\* The store after the call and the value returned.
setLocalStorage(store, key, value, raises) ==
    IF raises THEN [store |-> store, ret |-> FALSE, threw |-> FALSE]
    ELSE [store |-> [store EXCEPT ![key] = JSONStringify(value)],
          ret |-> TRUE, threw |-> FALSE]

removeLocalStorage(store, key, raises) ==
    IF raises THEN [store |-> store, ret |-> FALSE, threw |-> FALSE]
    ELSE [store |-> [store EXCEPT ![key] = NoItem], ret |-> TRUE, threw |-> FALSE]

-----------------------------------------------------------------------------
(* CUSTOMER UTILITIES: the customer list                                   *)

\* array.find((x) => x[key] === value): the first element whose property is
\* the value, or Undefined.
find(array, key, value) ==
    LET hits == {i \in 1..Len(array) : array[i][key] = value}
    IN  IF hits = {} THEN Undefined
        ELSE array[CHOOSE i \in hits : \A k \in hits : i <= k]

\* customers.findIndex((c) => c.name === name): a 0-based index, or -1.
findIndexByName(customers, name) ==
    LET hits == {i \in 1..Len(customers) : customers[i]["name"] = name}
    IN  IF hits = {} THEN -1
        ELSE (CHOOSE i \in hits : \A k \in hits : i <= k) - 1

\* A plausible slip: the customer pushed without looking for its name.
saveCustomer_AlwaysPush(store, customer, raises) ==
    IF raises THEN [store |-> store, ret |-> FALSE, threw |-> TRUE]
    ELSE LET data == store["customerDatabase"]
             customers == IF data # NoItem THEN JSONParse(data) ELSE <<>>
         IN  [store |-> [store EXCEPT !["customerDatabase"] =
                            JSONStringify(Append(customers, customer))],
              ret |-> TRUE, threw |-> FALSE]

\* saveCustomer reads and writes localStorage directly, outside any try: an
\* error of the store leaves it through the throw.
saveCustomer(store, customer, raises) ==
    IF raises \/ (store["customerDatabase"] # NoItem /\ ~Parses(store["customerDatabase"]))
    THEN [store |-> store, ret |-> FALSE, threw |-> TRUE]
    ELSE LET data == store["customerDatabase"]
             customers == IF data # NoItem THEN JSONParse(data) ELSE <<>>
             existingIndex == findIndexByName(customers, customer["name"])
             updated == IF existingIndex # -1
                        THEN [customers EXCEPT ![existingIndex + 1] = customer]
                        ELSE Append(customers, customer)
         IN  [store |-> [store EXCEPT !["customerDatabase"] = JSONStringify(updated)],
              ret |-> TRUE, threw |-> FALSE]

getAllCustomers(store, raises) == getLocalStorage(store, "customerDatabase", <<>>, raises)

\* A plausible slip: the stored record returned as it is found.
getCustomerByName_Raw(store, name, raises) ==
    LET customers == getAllCustomers(store, raises)
        customer  == find(customers, "name", name)
    IN  IF customer # Undefined THEN customer ELSE Null

getCustomerByName(store, name, raises) ==
    LET customers == getAllCustomers(store, raises)
        customer  == find(customers, "name", name)
    IN  IF customer # Undefined THEN normalizeCustomer(customer) ELSE Null

\* loadCustomers of the customer selector: like saveCustomer it reads
\* localStorage directly, outside any try.
loadCustomers(store, raises) ==
    IF raises \/ (store["customerDatabase"] # NoItem /\ ~Parses(store["customerDatabase"]))
    THEN [customers |-> <<>>, threw |-> TRUE]
    ELSE LET data == store["customerDatabase"]
         IN  [customers |-> IF data # NoItem THEN JSONParse(data) ELSE <<>>,
              threw |-> FALSE]

-----------------------------------------------------------------------------
(* PRODUCT UTILITIES: the localStorage-backed catalog                      *)

\* The letters of product names, codes and queries, in both cases, and a digit.
ProductAlphabet == {"a", "A", "b", "1"}

LowerChar(ch) == CASE ch = "A" -> "a" [] ch = "B" -> "b" [] OTHER -> ch

\* String.prototype.toLowerCase
toLowerCase(s) == [i \in 1..Len(s) |-> LowerChar(s[i])]

\* String.prototype.includes
includes(s, searchString) ==
    \E i \in 0..(Len(s) - Len(searchString)) :
        SubSeq(s, i + 1, i + Len(searchString)) = searchString

getAllProducts(store, raises) == getLocalStorage(store, "productDatabase", <<>>, raises)

\* A plausible slip: the query compared as typed, not lower-cased.
searchProducts_CaseSensitiveQuery(store, query, raises) ==
    IF query = <<>> THEN <<>>
    ELSE LET products == getAllProducts(store, raises)
         IN  SelectSeq(products,
                 LAMBDA product :
                     \/ includes(toLowerCase(product.name), query)
                     \/ (product.code # <<>> /\ includes(toLowerCase(product.code), query)))

searchProducts(store, query, raises) ==
    IF query = <<>> THEN <<>>
    ELSE LET products == getAllProducts(store, raises)
             searchTerm == toLowerCase(query)
         IN  SelectSeq(products,
                 LAMBDA product :
                     \/ includes(toLowerCase(product.name), searchTerm)
                     \/ (product.code # <<>> /\ includes(toLowerCase(product.code), searchTerm)))

\* A plausible slip: the empty code looked up like any other.
getProductByCode_NoEmptyGuard(store, code, raises) ==
    LET products == getAllProducts(store, raises)
        found    == find(products, "code", code)
    IN  IF found = Undefined THEN Null ELSE found

\* products.find(...) || null: a product is an object, never falsy.
getProductByCode(store, code, raises) ==
    IF code = <<>> THEN Null
    ELSE LET products == getAllProducts(store, raises)
             found    == find(products, "code", code)
         IN  IF found = Undefined THEN Null ELSE found

getProductByName(store, name, raises) ==
    IF name = <<>> THEN Null
    ELSE LET products == getAllProducts(store, raises)
             found    == find(products, "name", name)
         IN  IF found = Undefined THEN Null ELSE found

-----------------------------------------------------------------------------
(* CALLSHEET UTILITIES                                                     *)

getAllCallsheets(store, raises) == getLocalStorage(store, "callsheets", EmptyObject, raises)

\* A plausible slip: the week's stored list ignored.
getCallsheetForWeek_Empty(store, weekId, raises) == <<>>

\* callsheets[weekId] || []
getCallsheetForWeek(store, weekId, raises) ==
    LET callsheets == getAllCallsheets(store, raises)
    IN  IF HasProperty(callsheets, weekId) THEN callsheets[weekId] ELSE <<>>

\* A plausible slip: the mapping started afresh at every save.
saveCallsheetForWeek_Afresh(store, weekId, entries, raises) ==
    setLocalStorage(store, "callsheets", SetProperty(EmptyObject, weekId, entries), raises)

saveCallsheetForWeek(store, weekId, entries, raises) ==
    LET callsheets == getAllCallsheets(store, raises)
    IN  setLocalStorage(store, "callsheets", SetProperty(callsheets, weekId, entries), raises)

addToCurrentCallsheet(store, today, entry, raises) ==
    LET weekId  == getWeekIdentifier(today)
        entries == getCallsheetForWeek(store, weekId, raises)
    IN  saveCallsheetForWeek(store, weekId, Append(entries, entry), raises)

\* entries.splice(index, 1) for a 0-based index of entries.
splice1(entries, index) ==
    SubSeq(entries, 1, index) \o SubSeq(entries, index + 2, Len(entries))

\* A plausible slip: the upper bound tested with <=.
removeCallsheetEntry_OffByOne(store, weekId, index, raises) ==
    LET entries == getCallsheetForWeek(store, weekId, raises)
    IN  IF index >= 0 /\ index <= Len(entries)
        THEN saveCallsheetForWeek(store, weekId, splice1(entries, index), raises)
        ELSE [store |-> store, ret |-> FALSE, threw |-> FALSE]

removeCallsheetEntry(store, weekId, index, raises) ==
    LET entries == getCallsheetForWeek(store, weekId, raises)
    IN  IF index >= 0 /\ index < Len(entries)
        THEN saveCallsheetForWeek(store, weekId, splice1(entries, index), raises)
        ELSE [store |-> store, ret |-> FALSE, threw |-> FALSE]

-----------------------------------------------------------------------------
(* TIMERS                                                                  *)

(* Time is counted in units of 100 ms. A pending timer is a record of its  *)
(* id, what it will do, and the time left until it fires; a handle is the   *)
(* id setTimeout returned.                                                  *)

\* A handle that names no timer (null, or undefined for a property never set).
NoTimer == 0

\* The delays of the timers.
SearchDelay == 3
BlurDelay == 2

\* The id setTimeout returns: one that no pending timer and no handle has.
FreshId(pending, handles) ==
    CHOOSE n \in 1..(Cardinality(pending) + Cardinality(handles) + 1) :
        /\ n \notin handles /\ n \notin {t.id : t \in pending}
        /\ \A m \in 1..(n - 1) : m \in handles \/ m \in {t.id : t \in pending}

SearchTimer(id, inp, value) ==
    [id |-> id, kind |-> "search", inp |-> inp, value |-> value, left |-> SearchDelay]
BlurTimer(id, inp) ==
    [id |-> id, kind |-> "blur", inp |-> inp, value |-> <<>>, left |-> BlurDelay]

\* A clearTimeout that cancels nothing.
clearTimeout_Nothing(pending, handle) == pending

\* clearTimeout(handle): the pending timers without the one the handle names.
clearTimeout(pending, handle) == {t \in pending : t.id # handle}

-----------------------------------------------------------------------------
(* CUSTOMER SEARCH, PRODUCT SEARCH: the dropdowns and the form fields      *)
(* The page has a customer account input, a customer name input and the    *)
(* product code input of one product row, each alone in its parent element *)
(* (its container). part_001 has the text of part_000 for all of this.     *)

SearchInputs == {"account", "name", "product"}
CustomerSearchInputs == {"account", "name"}

\* The form field an input is.
FieldOf(inp) == IF inp = "product" THEN "productCode" ELSE inp

FormFields == {"customerId", "account", "name", "address", "productCode", "productName"}

\* value.length < 2
MinQueryLength == 2

NoDropdowns == [inp \in SearchInputs |-> <<>>]

\* container.querySelector(".dropdown-results") and existing.remove(): the
\* first dropdown of the input's container leaves it.
removeFirstIn(dd, inp) == [dd EXCEPT ![inp] = IF @ = <<>> THEN @ ELSE Tail(@)]

\* part_000: hideCustomerDropdown(inputElement)
hideCustomerDropdown(dd, inp) == removeFirstIn(dd, inp)

\* part_000: hideProductDropdown(inputElement)
hideProductDropdown(dd, inp) == removeFirstIn(dd, inp)

\* part_000: hideAllDropdowns()
hideAllDropdowns(dd) == NoDropdowns

\* part_002: hideCustomerDropdown(), which removes the first dropdown of the
\* document, whatever input it belongs to.
hideCustomerDropdown_002(dd, order) ==
    LET holders == {i \in 1..Len(order) : dd[order[i]] # <<>>}
    IN  IF holders = {} THEN dd
        ELSE removeFirstIn(dd, order[CHOOSE i \in holders : \A k \in holders : i <= k])

\* part_002: hideDropdown(inputElement)
hideDropdown_002(dd, inp) == removeFirstIn(dd, inp)

\* A plausible slip: the new dropdown appended without removing the old one.
showCustomerDropdown_NoHide(dd, inp, customers) ==
    [dd EXCEPT ![inp] = Append(@, customers)]

\* part_000: showCustomerDropdown(customers, inputElement, ...). A dropdown
\* element is the list of the results its items show.
showCustomerDropdown(dd, inp, customers) ==
    [hideCustomerDropdown(dd, inp) EXCEPT ![inp] = Append(@, customers)]

\* part_000: showProductDropdown(products, inputElement)
showProductDropdown(dd, inp, products) ==
    [hideProductDropdown(dd, inp) EXCEPT ![inp] = Append(@, products)]

\* part_002: showCustomerDropdown(customers, searchType, onSelect)
showCustomerDropdown_002(dd, order, inp, customers) ==
    [hideCustomerDropdown_002(dd, order) EXCEPT ![inp] = Append(@, customers)]

\* part_002: showProductDropdown(products, inputElement)
showProductDropdown_002(dd, inp, products) ==
    [hideDropdown_002(dd, inp) EXCEPT ![inp] = Append(@, products)]

\* part_000: clearCustomerFields(fieldsToClear)
clearCustomerFields(f, fieldsToClear) ==
    [x \in DOMAIN f |-> IF x \in fieldsToClear THEN <<>> ELSE f[x]]

PrimaryLabel == <<"P", "r", "i", "m", "a", "r", "y">>

\* part_000: the addresses handleCustomerAddresses renders the selector with.
AddressesOf(customer) ==
    IF customer.addresses = <<>> /\ customer.address # <<>>
    THEN <<[label |-> PrimaryLabel, street |-> customer.address, city |-> <<>>,
            zip |-> <<>>, phone |-> <<>>]>>
    ELSE customer.addresses

\* The answers to a lookup: a response that is OK with a list of results as
\* its body, a request that rejects, a response that is not OK with an error
\* object as its JSON body, and a response whose body is not JSON.
Failures == {[kind |-> "rejected"], [kind |-> "notOkJson"], [kind |-> "unparsable"]}
Ok(results) == [kind |-> "ok", body |-> results]

\* part_000: searchCustomers after its fetch was answered.
searchCustomers(dd, inp, outcome) ==
    IF outcome.kind = "ok"
    THEN IF Len(outcome.body) = 0 THEN hideCustomerDropdown(dd, inp)
         ELSE showCustomerDropdown(dd, inp, outcome.body)
    ELSE hideCustomerDropdown(dd, inp)

\* part_000: searchProducts after its fetch was answered.
searchProductsRemote(dd, inp, outcome) ==
    IF outcome.kind = "ok"
    THEN IF Len(outcome.body) = 0 THEN hideProductDropdown(dd, inp)
         ELSE showProductDropdown(dd, inp, outcome.body)
    ELSE hideProductDropdown(dd, inp)

\* part_002: searchCustomersAPI after its fetch was answered. response.ok is
\* not looked at: the error object of a response that is not OK has no
\* length, and undefined > 0 is false. A rejection, and a body that is not
\* JSON, reach the catch, which only logs.
searchCustomersAPI(dd, order, inp, outcome) ==
    CASE outcome.kind = "ok" ->
            IF Len(outcome.body) > 0
            THEN showCustomerDropdown_002(dd, order, inp, outcome.body)
            ELSE hideCustomerDropdown_002(dd, order)
      [] outcome.kind = "notOkJson" -> hideCustomerDropdown_002(dd, order)
      [] OTHER -> dd

\* part_002: searchProductsAPI after its fetch was answered.
searchProductsAPI(dd, inp, outcome) ==
    CASE outcome.kind = "ok" ->
            IF Len(outcome.body) > 0
            THEN showProductDropdown_002(dd, inp, outcome.body)
            ELSE hideDropdown_002(dd, inp)
      [] outcome.kind = "notOkJson" -> hideDropdown_002(dd, inp)
      [] OTHER -> dd

-----------------------------------------------------------------------------
(* ADDRESS SELECTION: formatAddressDisplay                                 *)
(* An address is a function from the names of the properties it has to     *)
(* their values; a text is a sequence of characters.                       *)

\* address.f as a condition: the property is there and is not "".
Truthy(address, f) == f \in DOMAIN address /\ address[f] # <<>>

\* Array.prototype.join
RECURSIVE join(_, _)
join(parts, separator) ==
    IF parts = <<>> THEN <<>>
    ELSE IF Len(parts) = 1 THEN parts[1]
    ELSE parts[1] \o separator \o join(Tail(parts), separator)

\* The text "Address not specified", kept as one token.
AddressNotSpecified == <<"Address not specified">>

\* A plausible slip: the three parts joined whether they are empty or not.
formatAddressDisplay_AllParts(address) ==
    LET parts == <<IF Truthy(address, "street") THEN address["street"] ELSE <<>>,
                   IF Truthy(address, "city") THEN address["city"] ELSE <<>>,
                   IF Truthy(address, "zip") THEN address["zip"] ELSE <<>>>>
        text  == join(parts, <<",", " ">>)
    IN  IF text # <<>> THEN text ELSE AddressNotSpecified

formatAddressDisplay(address) ==
    LET parts == (IF Truthy(address, "street") THEN <<address["street"]>> ELSE <<>>)
                 \o (IF Truthy(address, "city") THEN <<address["city"]>> ELSE <<>>)
                 \o (IF Truthy(address, "zip") THEN <<address["zip"]>> ELSE <<>>)
        text  == join(parts, <<",", " ">>)
    IN  IF text # <<>> THEN text ELSE AddressNotSpecified

-----------------------------------------------------------------------------
(* The inputs of the pure functions.                                        *)

\* The dates the week functions are called with: a modern window holding four
\* year changes and the 53-week year 2026, and the days around 1 January 1000, the first four-digit year.
Dates ==
    (ModernFirst .. (ModernFirst + MaxModernDays))
    \cup (EdgeFirst .. (EdgeFirst + MaxEdgeDays))

MaxAddresses == 2

AddressPool ==
    {[label |-> "Work", street |-> "2 Mill Rd", city |-> "Leeds", state |-> "",
      zip |-> "LS1", country |-> "UK"],
     [label |-> "Home", street |-> "", city |-> "", state |-> "", zip |-> "",
      country |-> ""]}

\* Every list of at most n elements of S.
SeqsUpTo(S, n) == UNION {[1..k -> S] : k \in 0..n}

\* The value a legacy field holds when it is there and not empty.
FieldValue(f) ==
    CASE f = "street" -> "1 High St" [] f = "city" -> "York" [] f = "state" -> "NY"
      [] f = "zip" -> "YO1" [] f = "country" -> "GB"

\* Customer records of every shape: each legacy field absent, empty or set, and
\* addresses absent, an empty list or a list of 1..MaxAddresses addresses.
CustomerShapes ==
    {[f \in {"name"} \cup {g \in LegacyFields : choice[g] # "absent"} \cup addr.dom |->
        IF f = "name" THEN "Acme"
        ELSE IF f = "addresses" THEN addr.list
        ELSE IF choice[f] = "empty" THEN "" ELSE FieldValue(f)] :
     choice \in [LegacyFields -> {"absent", "empty", "set"}],
     addr \in {[dom |-> {}, list |-> <<>>]}
              \cup {[dom |-> {"addresses"}, list |-> l] : l \in SeqsUpTo(AddressPool, MaxAddresses)}}

CustomerInputs == CustomerShapes \cup {Null, Undefined}

MaxNameLen == 2
MaxCodeLen == 2

ProductInputs ==
    [name : SeqsUpTo(Alphabet, MaxNameLen), code : SeqsUpTo(Alphabet, MaxCodeLen)]

-----------------------------------------------------------------------------
(* The week identifier of a date.                                           *)

NoDateCall == [fn |-> "none"]
InitDates == dateArg \in Dates /\ dateRet = NotCalled /\ dateCall = NoDateCall
InitNorm ==
    /\ cust \in CustomerInputs
    /\ custBefore = cust
    /\ normalized = Null /\ renormalized = Null /\ normPc = "start"
InitProd ==
    /\ prodArg \in ProductInputs
    /\ prodStr = <<>> /\ prodParsed = [name |-> <<>>, code |-> <<>>]
    /\ prodPc = "start"

\* The parts of the state a specification does not exercise.
IdleDates == dateArg = 0 /\ dateRet = NotCalled /\ dateCall = NoDateCall
IdleUtil == debouncer = [made |-> FALSE] /\ custSel = [made |-> FALSE]
IdleNorm ==
    /\ cust = Null /\ custBefore = Null
    /\ normalized = Null /\ renormalized = Null /\ normPc = "start"
IdleStore ==
    /\ storage = [k \in {"customerDatabase", "productDatabase", "callsheets"} |-> [item |-> FALSE]]
    /\ now = 0 /\ call = [op |-> "none"] /\ lastSaved = <<>>
IdleProd ==
    /\ prodArg = [name |-> <<>>, code |-> <<>>]
    /\ prodStr = <<>> /\ prodParsed = [name |-> <<>>, code |-> <<>>]
    /\ prodPc = "start"
IdleAddress == addressArg = <<>> /\ addressText = NotCalled
IdleUI ==
    /\ variant = "none" /\ layout = <<>>
    /\ fields = <<>> /\ timers = {}
    /\ customerSearchTimeout = NoTimer /\ productSearchTimeout = NoTimer
    /\ searchTimeoutOf = <<>>
    /\ inflight = {} /\ dropdowns = <<>>
    /\ currentSelectedCustomer = Null /\ addressSelector = Null
    /\ onSelectCalls = <<>> /\ issued = 0 /\ lastInput = <<>>
    /\ eventCount = 0 /\ uiEvent = [type |-> "none"]
\* validateForm not called yet.
NoValidation == [called |-> FALSE]

IdleSelector ==
    /\ selVariant = "none" /\ selector = [rendered |-> FALSE]
    /\ addressInput = <<>> /\ hidden = <<>>
    /\ selEvent = [type |-> "none"] /\ selCount = 0
IdleExt == IdleSelector /\ validateCall = NoValidation /\ writer = <<>>
IdleRest == IdleUI /\ IdleAddress /\ IdleExt

CallGetWeekIdentifier ==
    /\ dateRet = NotCalled
    /\ dateRet' = getWeekIdentifier(dateArg)
    /\ UNCHANGED <<dateArg, dateCall, utilVars, normVars, prodVars, storeVars, restVars>>

NextDates == CallGetWeekIdentifier

StartDates == InitDates /\ IdleUtil /\ IdleNorm /\ IdleProd /\ IdleStore /\ IdleRest

SpecDates == StartDates /\ [][NextDates]_vars

\* getMondayOfWeek(date) and getWeekNumber(date), each called on a date. The
\* argument is copied (new Date(date), Date.UTC of its parts) and the copy is
\* what setDate and setUTCDate change.
CallGetMondayOfWeek ==
    /\ dateCall = NoDateCall
    /\ dateCall' = [fn |-> "getMondayOfWeek", arg |-> dateArg,
                    ret |-> getMondayOfWeek(dateArg)]
    /\ UNCHANGED <<dateArg, dateRet, utilVars, normVars, prodVars, storeVars, restVars>>

CallGetWeekNumber ==
    /\ dateCall = NoDateCall
    /\ dateCall' = [fn |-> "getWeekNumber", arg |-> dateArg,
                    ret |-> getWeekNumber(dateArg)]
    /\ UNCHANGED <<dateArg, dateRet, utilVars, normVars, prodVars, storeVars, restVars>>

NextWeekParts == CallGetMondayOfWeek \/ CallGetWeekNumber

SpecWeekParts == StartDates /\ [][NextWeekParts]_vars

-----------------------------------------------------------------------------
(* normalizeCustomer, applied once and then to its own result.              *)

CallNormalize ==
    /\ normPc = "start"
    /\ normalized' = normalizeCustomer(cust)
    /\ cust' = ArgAfterNormalize(cust)
    /\ normPc' = "once"
    /\ UNCHANGED <<custBefore, renormalized, dateVars, utilVars, prodVars, storeVars, restVars>>

CallNormalizeAgain ==
    /\ normPc = "once"
    /\ renormalized' = normalizeCustomer(normalized)
    /\ normPc' = "twice"
    /\ UNCHANGED <<cust, custBefore, normalized, dateVars, utilVars, prodVars, storeVars, restVars>>

NextNorm == CallNormalize \/ CallNormalizeAgain

StartNorm == InitNorm /\ IdleDates /\ IdleUtil /\ IdleProd /\ IdleStore /\ IdleRest

SpecNorm == StartNorm /\ [][NextNorm]_vars

-----------------------------------------------------------------------------
(* A product formatted and its display string parsed.                       *)

CallFormatProduct ==
    /\ prodPc = "start"
    /\ prodStr' = formatProductWithCode(prodArg)
    /\ prodPc' = "formatted"
    /\ UNCHANGED <<prodArg, prodParsed, dateVars, utilVars, normVars, storeVars, restVars>>

CallParseProduct ==
    /\ prodPc = "formatted"
    /\ prodParsed' = parseProductString(prodStr)
    /\ prodPc' = "parsed"
    /\ UNCHANGED <<prodArg, prodStr, dateVars, utilVars, normVars, storeVars, restVars>>

NextProd == CallFormatProduct \/ CallParseProduct

StartProd == InitProd /\ IdleDates /\ IdleUtil /\ IdleNorm /\ IdleStore /\ IdleRest

SpecProd == StartProd /\ [][NextProd]_vars
-----------------------------------------------------------------------------
(* The display text of an address.                                          *)

MaxPartLen == 2

\* The characters of streets, cities and zips: a letter, and the two
\* characters of the separator.
PartAlphabet == {"a", ",", " "}

\* The addresses formatted: each of street, city and zip absent, empty or a
\* text of at most MaxPartLen characters.
AddressInputs ==
    UNION {[present -> SeqsUpTo(PartAlphabet, MaxPartLen)] :
             present \in SUBSET {"street", "city", "zip"}}

InitAddress == addressArg \in AddressInputs /\ addressText = NotCalled

CallFormatAddressDisplay ==
    /\ addressText = NotCalled
    /\ addressText' = formatAddressDisplay(addressArg)
    /\ UNCHANGED <<addressArg, uiVars, extVars, dateVars, utilVars, normVars, prodVars, storeVars>>

NextAddress == CallFormatAddressDisplay

StartAddress == InitAddress /\ IdleUI /\ IdleExt /\ IdleDates /\ IdleUtil /\ IdleNorm /\ IdleProd /\ IdleStore

SpecAddress == StartAddress /\ [][NextAddress]_vars

-----------------------------------------------------------------------------
(* The customer repository: saveCustomer calls on an empty store.           *)

NoCall == [op |-> "none"]

EmptyStorage == [k \in StorageKeys |-> NoItem]

\* The customers saved: three names, one differing from another only in case,
\* each in a legacy shape and in the multi-address shape.
CustomerNames == {"Acme", "acme", "Bolt"}

CustomerPool ==
    {[name |-> n, city |-> "York"] : n \in CustomerNames}
    \cup {[name |-> n, addresses |-> <<a>>] : n \in CustomerNames, a \in AddressPool}

SaveCustomer(customer, raises) ==
    \E r \in {saveCustomer(storage, customer, raises)} :
        /\ storage' = r.store
        /\ call' = [op |-> "saveCustomer", customer |-> customer,
                    ret |-> r.ret, threw |-> r.threw, raised |-> raises]
        /\ lastSaved' = IF r.threw THEN lastSaved
                        ELSE (customer["name"] :> customer) @@ lastSaved
        /\ UNCHANGED <<now, dateVars, utilVars, normVars, prodVars, restVars>>

NextCustomers == \E customer \in CustomerPool : SaveCustomer(customer, FALSE)

StartCustomers ==
    /\ storage = EmptyStorage /\ now = 0 /\ call = NoCall /\ lastSaved = <<>>
    /\ IdleDates /\ IdleUtil /\ IdleNorm /\ IdleProd /\ IdleRest

SpecCustomers == StartCustomers /\ [][NextCustomers]_vars

-----------------------------------------------------------------------------
(* The customer repository: lookups by name in a list found in the store.   *)

MaxStoredCustomers == 2

\* The records found in the store: each name with legacy fields only, with an
\* empty addresses list, and with one and two addresses.
StoredCustomerPool ==
    {[name |-> n, city |-> "York"] : n \in CustomerNames}
    \cup {[name |-> n, zip |-> "YO1", addresses |-> l] :
            n \in CustomerNames,
            l \in {<<>>} \cup {<<a>> : a \in AddressPool}
                  \cup {l \in [1..2 -> AddressPool] : l[1] # l[2]}}

\* The names looked up: the stored names and one that is never stored.
LookupNames == CustomerNames \cup {"ACME"}

GetCustomerByName(name, raises) ==
    /\ call' = [op |-> "getCustomerByName", arg |-> name,
                ret |-> getCustomerByName(storage, name, raises), threw |-> FALSE]
    /\ UNCHANGED <<storage, now, lastSaved, dateVars, utilVars, normVars, prodVars, restVars>>

NextCustomerLookup == \E name \in LookupNames : GetCustomerByName(name, FALSE)

StartCustomerLookup ==
    /\ \E customers \in SeqsUpTo(StoredCustomerPool, MaxStoredCustomers) :
          storage = [EmptyStorage EXCEPT !["customerDatabase"] = JSONStringify(customers)]
    /\ now = 0 /\ call = NoCall /\ lastSaved = <<>>
    /\ IdleDates /\ IdleUtil /\ IdleNorm /\ IdleProd /\ IdleRest

SpecCustomerLookup == StartCustomerLookup /\ [][NextCustomerLookup]_vars

-----------------------------------------------------------------------------
(* The product repository: searches of a catalog found in the store.        *)

MaxCatalog == 2
MaxQueryLen == 2

ProductPool ==
    [name : {<<"A", "b">>, <<"b">>, <<"a", "a">>},
     code : {<<>>, <<"A", "1">>, <<"b">>}]

Catalogs == SeqsUpTo(ProductPool, MaxCatalog)

Queries == SeqsUpTo(ProductAlphabet, MaxQueryLen)

SearchProducts(query, raises) ==
    /\ call' = [op |-> "searchProducts", query |-> query,
                ret |-> searchProducts(storage, query, raises), threw |-> FALSE]
    /\ UNCHANGED <<storage, now, lastSaved, dateVars, utilVars, normVars, prodVars, restVars>>

NextProducts == \E query \in Queries : SearchProducts(query, FALSE)

StartProducts ==
    /\ \E catalog \in Catalogs :
          storage = [EmptyStorage EXCEPT !["productDatabase"] = JSONStringify(catalog)]
    /\ now = 0 /\ call = NoCall /\ lastSaved = <<>>
    /\ IdleDates /\ IdleUtil /\ IdleNorm /\ IdleProd /\ IdleRest

SpecProducts == StartProducts /\ [][NextProducts]_vars

-----------------------------------------------------------------------------
(* The product repository: exact lookups by code and by name.               *)

\* The codes and names looked up: the empty string, every code and name of the
\* pool, and strings no product has as its code or name (one of them a code in
\* another case).
LookupArgs ==
    {<<>>, <<"1">>, <<"a", "1">>}
    \cup {p.code : p \in ProductPool} \cup {p.name : p \in ProductPool}

GetProductByCode(code, raises) ==
    /\ call' = [op |-> "getProductByCode", arg |-> code,
                ret |-> getProductByCode(storage, code, raises), threw |-> FALSE]
    /\ UNCHANGED <<storage, now, lastSaved, dateVars, utilVars, normVars, prodVars, restVars>>

GetProductByName(name, raises) ==
    /\ call' = [op |-> "getProductByName", arg |-> name,
                ret |-> getProductByName(storage, name, raises), threw |-> FALSE]
    /\ UNCHANGED <<storage, now, lastSaved, dateVars, utilVars, normVars, prodVars, restVars>>

NextProductLookup ==
    \E arg \in LookupArgs :
        \/ GetProductByCode(arg, FALSE)
        \/ GetProductByName(arg, FALSE)

SpecProductLookup == StartProducts /\ [][NextProductLookup]_vars

-----------------------------------------------------------------------------
(* The callsheet repository, with a clock that moves from week to week.     *)

MaxEntries == 2

EntryPool == {"visit", "phone"}

\* The days the clock shows: Monday 23 December 2024 and Wednesday 1 January 2025.
ClockDates == {DaysFromCivil(2024, 12, 23), DaysFromCivil(2025, 1, 1)}

\* The week identifiers callers pass: those of the clock's weeks.
WeekIds == {getWeekIdentifier(d) : d \in ClockDates}

Tick ==
    /\ \E d \in ClockDates : d > now /\ now' = d
    /\ UNCHANGED <<storage, call, lastSaved, dateVars, utilVars, normVars, prodVars, restVars>>

AddToCurrentCallsheet(entry, raises) ==
    \E r \in {addToCurrentCallsheet(storage, now, entry, raises)} :
        /\ Len(getCallsheetForWeek(storage, getWeekIdentifier(now), FALSE)) < MaxEntries
        /\ storage' = r.store
        /\ call' = [op |-> "addToCurrentCallsheet", entry |-> entry,
                    ret |-> r.ret, threw |-> r.threw, raised |-> raises]
        /\ UNCHANGED <<now, lastSaved, dateVars, utilVars, normVars, prodVars, restVars>>

RemoveCallsheetEntry(weekId, index, raises) ==
    \E r \in {removeCallsheetEntry(storage, weekId, index, raises)} :
        /\ storage' = r.store
        /\ call' = [op |-> "removeCallsheetEntry", weekId |-> weekId, index |-> index,
                    ret |-> r.ret, threw |-> r.threw, raised |-> raises]
        /\ UNCHANGED <<now, lastSaved, dateVars, utilVars, normVars, prodVars, restVars>>

\* History: the list stored for the week when an operation starts.
StoredWeekBefore(weekId) ==
    IF storage["callsheets"] # NoItem /\ Parses(storage["callsheets"])
       /\ HasProperty(storage["callsheets"].json, weekId)
    THEN storage["callsheets"].json[weekId] ELSE <<>>

SaveCallsheetForWeek(weekId, entries, raises) ==
    \E r \in {saveCallsheetForWeek(storage, weekId, entries, raises)} :
        /\ storage' = r.store
        /\ call' = [op |-> "saveCallsheetForWeek", weekId |-> weekId, entries |-> entries,
                    ret |-> r.ret, threw |-> r.threw, raised |-> raises,
                    before |-> StoredWeekBefore(weekId)]
        /\ UNCHANGED <<now, lastSaved, dateVars, utilVars, normVars, prodVars, restVars>>

NextCallsheets ==
    \/ Tick
    \/ \E entry \in EntryPool : AddToCurrentCallsheet(entry, FALSE)
    \/ \E weekId \in WeekIds, index \in -1..(MaxEntries + 1) :
          RemoveCallsheetEntry(weekId, index, FALSE)
    \/ \E weekId \in WeekIds, entries \in SeqsUpTo(EntryPool, MaxEntries) :
          SaveCallsheetForWeek(weekId, entries, FALSE)

StartCallsheets ==
    /\ storage = EmptyStorage /\ now = DaysFromCivil(2024, 12, 23) /\ call = NoCall
    /\ lastSaved = <<>>
    /\ IdleDates /\ IdleUtil /\ IdleNorm /\ IdleProd /\ IdleRest

SpecCallsheets == StartCallsheets /\ [][NextCallsheets]_vars

-----------------------------------------------------------------------------
(* The storage-backed operations on a store that may raise an error when it *)
(* is accessed and may hold text that is not JSON.                          *)

FaultyKeys == {"customerDatabase", "callsheets"}

\* What the store holds at the start: under each key nothing, text that does
\* not parse, or a stored value.
FaultyStores ==
    {[customerDatabase |-> c, productDatabase |-> NoItem, callsheets |-> s] :
        c \in {NoItem, Unparsable, JSONStringify(<<[name |-> "Bolt", city |-> "York"]>>)},
        s \in {NoItem, Unparsable,
               JSONStringify(SetProperty(EmptyObject,
                                         getWeekIdentifier(DaysFromCivil(2025, 1, 1)),
                                         <<"visit">>))}}

GetLocalStorage(key, defaultValue, raises) ==
    /\ call' = [op |-> "getLocalStorage", key |-> key, defaultValue |-> defaultValue,
                ret |-> getLocalStorage(storage, key, defaultValue, raises),
                threw |-> FALSE, raised |-> raises]
    /\ UNCHANGED <<storage, now, lastSaved, dateVars, utilVars, normVars, prodVars, restVars>>

SetLocalStorage(key, value, raises) ==
    \E r \in {setLocalStorage(storage, key, value, raises)} :
        /\ storage' = r.store
        /\ call' = [op |-> "setLocalStorage", key |-> key, value |-> value,
                    ret |-> r.ret, threw |-> r.threw, raised |-> raises]
        /\ UNCHANGED <<now, lastSaved, dateVars, utilVars, normVars, prodVars, restVars>>

RemoveLocalStorage(key, raises) ==
    \E r \in {removeLocalStorage(storage, key, raises)} :
        /\ storage' = r.store
        /\ call' = [op |-> "removeLocalStorage", key |-> key,
                    ret |-> r.ret, threw |-> r.threw, raised |-> raises]
        /\ UNCHANGED <<now, lastSaved, dateVars, utilVars, normVars, prodVars, restVars>>

LoadCustomers(raises) ==
    \E r \in {loadCustomers(storage, raises)} :
        /\ call' = [op |-> "loadCustomers", ret |-> r.customers,
                    threw |-> r.threw, raised |-> raises]
        /\ UNCHANGED <<storage, now, lastSaved, dateVars, utilVars, normVars, prodVars, restVars>>

NextFaultyStore ==
    \E raises \in BOOLEAN :
        \/ \E key \in FaultyKeys : GetLocalStorage(key, <<>>, raises)
        \/ \E key \in FaultyKeys : SetLocalStorage(key, <<>>, raises)
        \/ \E key \in FaultyKeys : RemoveLocalStorage(key, raises)
        \/ LoadCustomers(raises)
        \/ \E name \in {"Acme", "Bolt"} : SaveCustomer([name |-> name, city |-> "York"], raises)
        \/ \E entry \in EntryPool : AddToCurrentCallsheet(entry, raises)
        \/ \E weekId \in WeekIds, index \in 0..1 : RemoveCallsheetEntry(weekId, index, raises)
        \/ \E weekId \in WeekIds : SaveCallsheetForWeek(weekId, <<"phone">>, raises)

StartFaultyStore ==
    /\ storage \in FaultyStores
    /\ now = DaysFromCivil(2025, 1, 1) /\ call = NoCall /\ lastSaved = <<>>
    /\ IdleDates /\ IdleUtil /\ IdleNorm /\ IdleProd /\ IdleRest

SpecFaultyStore == StartFaultyStore /\ [][NextFaultyStore]_vars

-----------------------------------------------------------------------------
(* LOCALSTORAGE UTILITIES on the stored text: what JSON.stringify writes    *)
(* for a JSON value and what JSON.parse reads back. A JSON value is a       *)
(* record tagged with its type.                                            *)

JNull == [t |-> "null"]
JBool(b) == [t |-> "boolean", b |-> b]
JNum(n) == [t |-> "number", n |-> n]
JStr(s) == [t |-> "string", s |-> s]
JList(items) == [t |-> "array", items |-> items]
JObj(members) == [t |-> "object", members |-> members]

Quote == "\""
Backslash == "\\"

RECURSIVE QuoteChars(_)
\* The characters of a string as JSON.stringify writes them between quotes.
QuoteChars(s) ==
    IF s = <<>> THEN <<>>
    ELSE (IF Head(s) \in {Quote, Backslash} THEN <<Backslash, Head(s)>> ELSE <<Head(s)>>)
             \o QuoteChars(Tail(s))

RECURSIVE stringify(_)
\* JSON.stringify(value)
stringify(value) ==
    CASE value.t = "null" -> <<"n", "u", "l", "l">>
      [] value.t = "boolean" ->
            IF value.b THEN <<"t", "r", "u", "e">> ELSE <<"f", "a", "l", "s", "e">>
      [] value.t = "number" -> IntToString(value.n)
      [] value.t = "string" -> <<Quote>> \o QuoteChars(value.s) \o <<Quote>>
      [] value.t = "array" ->
            <<"[">> \o join([i \in 1..Len(value.items) |-> stringify(value.items[i])],
                            <<",">>) \o <<"]">>
      [] value.t = "object" ->
            <<"{">> \o join([i \in 1..Len(value.members) |->
                                <<Quote>> \o QuoteChars(value.members[i].key)
                                    \o <<Quote, ":">>
                                    \o stringify(value.members[i].value)],
                            <<",">>) \o <<"}">>

\* text.startsWith(word, i)
StartsWithAt(text, i, word) ==
    /\ i + Len(word) - 1 <= Len(text)
    /\ \A k \in 1..Len(word) : text[i + k - 1] = word[k]

IsDigit(c) == \E k \in 1..Len(Digits) : Digits[k] = c
DigitValue(c) == (CHOOSE k \in 1..Len(Digits) : Digits[k] = c) - 1

\* JSON.parse read no value at this place.
NoParse == [ok |-> FALSE]
Parsed(value, next) == [ok |-> TRUE, value |-> value, next |-> next]

RECURSIVE ParseStringAt(_, _, _)
\* The characters of a string literal from place i to its closing quote.
ParseStringAt(text, i, acc) ==
    IF i > Len(text) THEN NoParse
    ELSE IF text[i] = Quote THEN Parsed(acc, i + 1)
    ELSE IF text[i] = Backslash
    THEN IF i + 1 <= Len(text) /\ text[i + 1] \in {Quote, Backslash}
         THEN ParseStringAt(text, i + 2, Append(acc, text[i + 1]))
         ELSE NoParse
    ELSE ParseStringAt(text, i + 1, Append(acc, text[i]))

RECURSIVE ParseDigitsAt(_, _, _)
\* The digits of a number from place i on.
ParseDigitsAt(text, i, acc) ==
    IF i <= Len(text) /\ IsDigit(text[i])
    THEN ParseDigitsAt(text, i + 1, 10 * acc + DigitValue(text[i]))
    ELSE Parsed(acc, i)

ParseNumberAt(text, i) ==
    LET negative == text[i] = "-"
        first == IF negative THEN i + 1 ELSE i
    IN  IF first > Len(text) \/ ~IsDigit(text[first]) THEN NoParse
        ELSE IF text[first] = "0" /\ first + 1 <= Len(text) /\ IsDigit(text[first + 1])
        THEN NoParse
        ELSE LET r == ParseDigitsAt(text, first, 0)
             IN  Parsed(JNum(IF negative THEN -r.value ELSE r.value), r.next)

RECURSIVE ParseValueAt(_, _), ParseItemsAt(_, _, _), ParseMembersAt(_, _, _)
\* The JSON value that starts at place i of the text.
ParseValueAt(text, i) ==
    IF i > Len(text) THEN NoParse
    ELSE IF StartsWithAt(text, i, <<"n", "u", "l", "l">>) THEN Parsed(JNull, i + 4)
    ELSE IF StartsWithAt(text, i, <<"t", "r", "u", "e">>) THEN Parsed(JBool(TRUE), i + 4)
    ELSE IF StartsWithAt(text, i, <<"f", "a", "l", "s", "e">>)
    THEN Parsed(JBool(FALSE), i + 5)
    ELSE IF text[i] = Quote
    THEN LET r == ParseStringAt(text, i + 1, <<>>)
         IN  IF r.ok THEN Parsed(JStr(r.value), r.next) ELSE NoParse
    ELSE IF text[i] = "["
    THEN IF StartsWithAt(text, i, <<"[", "]">>) THEN Parsed(JList(<<>>), i + 2)
         ELSE ParseItemsAt(text, i + 1, <<>>)
    ELSE IF text[i] = "{"
    THEN IF StartsWithAt(text, i, <<"{", "}">>) THEN Parsed(JObj(<<>>), i + 2)
         ELSE ParseMembersAt(text, i + 1, <<>>)
    ELSE IF text[i] = "-" \/ IsDigit(text[i]) THEN ParseNumberAt(text, i)
    ELSE NoParse

\* The items of an array from place i to its closing bracket.
ParseItemsAt(text, i, acc) ==
    LET r == ParseValueAt(text, i)
    IN  IF ~r.ok \/ r.next > Len(text) THEN NoParse
        ELSE IF text[r.next] = "," THEN ParseItemsAt(text, r.next + 1, Append(acc, r.value))
        ELSE IF text[r.next] = "]" THEN Parsed(JList(Append(acc, r.value)), r.next + 1)
        ELSE NoParse

\* The members of an object from place i to its closing brace.
ParseMembersAt(text, i, acc) ==
    IF i > Len(text) \/ text[i] # Quote THEN NoParse
    ELSE LET k == ParseStringAt(text, i + 1, <<>>)
         IN  IF ~k.ok \/ k.next > Len(text) \/ text[k.next] # ":" THEN NoParse
             ELSE LET r == ParseValueAt(text, k.next + 1)
                      members == Append(acc, [key |-> k.value, value |-> r.value])
                  IN  IF ~r.ok \/ r.next > Len(text) THEN NoParse
                      ELSE IF text[r.next] = ","
                      THEN ParseMembersAt(text, r.next + 1, members)
                      ELSE IF text[r.next] = "}" THEN Parsed(JObj(members), r.next + 1)
                      ELSE NoParse

\* JSON.parse(text): the value, or a SyntaxError thrown.
parse(text) ==
    LET r == ParseValueAt(text, 1)
    IN  IF r.ok /\ r.next = Len(text) + 1
        THEN [threw |-> FALSE, value |-> r.value]
        ELSE [threw |-> TRUE]

\* localStorage.getItem(key) is null for a key without item.
NoText == [present |-> FALSE]
Text(chars) == [present |-> TRUE, chars |-> chars]

\* A plausible slip: the default returned for every falsy stored value.
getLocalStorageOfText_OrDefault(store, key, defaultValue) ==
    IF store[key] = NoText \/ store[key].chars = <<>> THEN defaultValue
    ELSE LET r == parse(store[key].chars)
         IN  IF r.threw THEN defaultValue
             ELSE IF r.value \in {JNull, JBool(FALSE), JNum(0), JStr(<<>>)}
             THEN defaultValue
             ELSE r.value

\* getLocalStorage(key, defaultValue) on a store that raises no error:
\* item ? JSON.parse(item) : defaultValue, the default too when parse throws.
getLocalStorageOfText(store, key, defaultValue) ==
    IF store[key] = NoText \/ store[key].chars = <<>> THEN defaultValue
    ELSE LET r == parse(store[key].chars)
         IN  IF r.threw THEN defaultValue ELSE r.value

\* setLocalStorage(key, value) on a store that raises no error.
setLocalStorageOfText(store, key, value) ==
    [store |-> [store EXCEPT ![key] = Text(stringify(value))], ret |-> TRUE]

\* removeLocalStorage(key) on a store that raises no error.
removeLocalStorageOfText(store, key) ==
    [store |-> [store EXCEPT ![key] = NoText], ret |-> TRUE]

\* The JSON values written: the scalars, with the falsy ones and strings that
\* hold quotes, backslashes and JSON syntax, and lists and objects of them.
JsonScalars ==
    {JNull, JBool(FALSE), JBool(TRUE), JNum(0), JNum(-1), JNum(10),
     JStr(<<>>), JStr(<<"a">>), JStr(<<Quote>>), JStr(<<Backslash, "n">>),
     JStr(<<"n", "u", "l", "l">>), JStr(<<"]", ",">>)}
JsonItems ==
    {JNull, JBool(FALSE), JNum(0), JStr(<<>>), JStr(<<",", Quote>>), JList(<<>>),
     JObj(<<>>)}
MaxJsonItems == 2
JsonValues ==
    JsonScalars
        \cup {JList(items) : items \in SeqsUpTo(JsonItems, MaxJsonItems)}
        \cup {JObj(<<>>)}
        \cup {JObj(<<[key |-> k, value |-> v]>>) : k \in {<<>>, <<"a", Quote>>}, v \in JsonItems}
        \cup {JObj(<<[key |-> <<"a">>, value |-> v], [key |-> <<"b">>, value |-> JNull]>>) :
                 v \in JsonItems}

\* The defaults passed: a JSON value, and a value that is no stored value.
Defaults == {JNull, JStr(<<"d">>), [t |-> "default"]}

TextKeys == {"k", "other"}

\* What was last written under a key and not removed since.
NothingWritten == [written |-> FALSE]
Written(value) == [written |-> TRUE, value |-> value]

GetLocalStorageOfText(key, defaultValue) ==
    /\ call' = [op |-> "getLocalStorage", key |-> key, defaultValue |-> defaultValue,
                ret |-> getLocalStorageOfText(storage, key, defaultValue)]
    /\ UNCHANGED <<storage, now, lastSaved, dateVars, utilVars, normVars, prodVars, restVars>>

SetLocalStorageOfText(key, value) ==
    \E r \in {setLocalStorageOfText(storage, key, value)} :
        /\ storage' = r.store
        /\ call' = [op |-> "setLocalStorage", key |-> key, value |-> value, ret |-> r.ret]
        /\ lastSaved' = [lastSaved EXCEPT ![key] = Written(value)]
        /\ UNCHANGED <<now, dateVars, utilVars, normVars, prodVars, restVars>>

RemoveLocalStorageOfText(key) ==
    \E r \in {removeLocalStorageOfText(storage, key)} :
        /\ storage' = r.store
        /\ call' = [op |-> "removeLocalStorage", key |-> key, ret |-> r.ret]
        /\ lastSaved' = [lastSaved EXCEPT ![key] = NothingWritten]
        /\ UNCHANGED <<now, dateVars, utilVars, normVars, prodVars, restVars>>

NextTexts ==
    \/ \E key \in TextKeys, defaultValue \in Defaults : GetLocalStorageOfText(key, defaultValue)
    \/ \E value \in JsonValues : SetLocalStorageOfText("k", value)
    \/ \E value \in {JNull, JStr(<<"a">>)} : SetLocalStorageOfText("other", value)
    \/ \E key \in TextKeys : RemoveLocalStorageOfText(key)

StartTexts ==
    /\ storage = [key \in TextKeys |-> NoText]
    /\ now = 0 /\ call = NoCall
    /\ lastSaved = [key \in TextKeys |-> NothingWritten]
    /\ IdleDates /\ IdleUtil /\ IdleNorm /\ IdleProd /\ IdleRest

SpecTexts == StartTexts /\ [][NextTexts]_vars

-----------------------------------------------------------------------------

(* FORM VALIDATION UTILITIES                                                *)
(* A form is the list of its fields, each with its id, its classes and its  *)
(* value, and the list of its labels, each with its for attribute and its   *)
(* text, in document order.                                                 *)

\* The letters of field ids; a dot is the one other character an id has here.
IdentChars == {"a", "b"}

\* The parts of s between its dots.
RECURSIVE SplitAtDots(_)
SplitAtDots(s) ==
    IF \A i \in 1..Len(s) : s[i] # "." THEN <<s>>
    ELSE LET dot == CHOOSE i \in 1..Len(s) :
                        s[i] = "." /\ \A k \in 1..(i - 1) : s[k] # "."
         IN  <<SubSeq(s, 1, dot - 1)>> \o SplitAtDots(SubSeq(s, dot + 1, Len(s)))

IsIdentifier(part) == part # <<>> /\ \A i \in 1..Len(part) : part[i] \in IdentChars

\* The selector `#${fieldId}` as the selector parser reads it: an id selector,
\* followed by a class selector for every dot in fieldId; a syntax error when
\* a part is no identifier.
ParseIdSelector(fieldId) ==
    LET parts == SplitAtDots(fieldId)
    IN  IF \A i \in 1..Len(parts) : IsIdentifier(parts[i])
        THEN [valid |-> TRUE, id |-> parts[1],
              classes |-> {parts[i] : i \in 2..Len(parts)}]
        ELSE [valid |-> FALSE]

\* The fields form.querySelector(`#${fieldId}`) matches.
FieldsMatching(form, fieldId) ==
    LET sel == ParseIdSelector(fieldId)
    IN  {i \in 1..Len(form.fields) :
            /\ form.fields[i].id = sel.id
            /\ sel.classes \subseteq form.fields[i].classes}

\* The labels form.querySelector(`label[for="${fieldId}"]`) matches.
LabelsMatching(form, fieldId) ==
    {i \in 1..Len(form.labels) : form.labels[i].for = fieldId}

First(S) == CHOOSE i \in S : \A k \in S : i <= k

FieldNotFound(fieldId) ==
    <<"F", "i", "e", "l", "d", " ">> \o fieldId
        \o <<" ", "n", "o", "t", " ", "f", "o", "u", "n", "d">>
IsRequired(fieldName) ==
    fieldName \o <<" ", "i", "s", " ", "r", "e", "q", "u", "i", "r", "e", "d">>

\* The errors the forEach of validateForm pushes for the ids from the k-th on.
RECURSIVE ErrorsFrom(_, _, _)
ErrorsFrom(form, requiredFields, k) ==
    IF k > Len(requiredFields) THEN <<>>
    ELSE LET fieldId == requiredFields[k]
             found   == FieldsMatching(form, fieldId)
             rest    == ErrorsFrom(form, requiredFields, k + 1)
         IN  IF found = {} THEN <<FieldNotFound(fieldId)>> \o rest
             ELSE LET field == form.fields[First(found)]
                  IN  IF field.value = <<>> \/ trim(field.value) = <<>>
                      THEN LET labels == LabelsMatching(form, fieldId)
                               fieldName == IF labels # {}
                                            THEN form.labels[First(labels)].textContent
                                            ELSE fieldId
                           IN  <<IsRequired(fieldName)>> \o rest
                      ELSE rest

\* validateForm(form, requiredFields): the form after the call, and what is
\* returned; querySelector throws a SyntaxError on a selector it cannot parse.
validateForm(form, requiredFields) ==
    IF \E k \in 1..Len(requiredFields) : ~ParseIdSelector(requiredFields[k]).valid
    THEN [form |-> form, threw |-> TRUE]
    ELSE LET errors == ErrorsFrom(form, requiredFields, 1)
         IN  [form |-> form, threw |-> FALSE,
              ret |-> [isValid |-> Len(errors) = 0, errors |-> errors]]

MaxFormFields == 2
MaxRequired == 2

\* The ids of the fields and of the required fields: two letters, and an id
\* with a dot.
FieldIds == {<<"a">>, <<"b">>, <<"a", ".", "b">>}
FieldValues == {<<>>, <<" ">>, <<"a">>}
FormFieldPool ==
    {[id |-> i, classes |-> c, value |-> v] :
        i \in FieldIds, c \in {{}, {<<"b">>}}, v \in FieldValues}
FormLabelPool ==
    {<<>>, <<[for |-> <<"a">>, textContent |-> <<"A">>]>>,
     <<[for |-> <<"b">>, textContent |-> <<>>],
       [for |-> <<"a", ".", "b">>, textContent |-> <<"A">>]>>}

\* The forms: their fields have different ids.
Forms ==
    {[fields |-> f, labels |-> l] :
        f \in {g \in SeqsUpTo(FormFieldPool, MaxFormFields) :
                  \A i, j \in 1..Len(g) : g[i].id = g[j].id => i = j},
        l \in FormLabelPool}

CallValidateForm(form, requiredFields) ==
    /\ validateCall = NoValidation
    /\ validateCall' = [form |-> form, requiredFields |-> requiredFields,
                        result |-> validateForm(form, requiredFields)]
    /\ UNCHANGED <<dateVars, utilVars, normVars, prodVars, storeVars, uiVars, addressVars,
                   selVars, writer>>

NextValidate ==
    \E form \in Forms, requiredFields \in SeqsUpTo(FieldIds, MaxRequired) :
        CallValidateForm(form, requiredFields)

StartValidate ==
    /\ validateCall = NoValidation /\ writer = <<>>
    /\ IdleSelector /\ IdleUI /\ IdleAddress
    /\ IdleDates /\ IdleUtil /\ IdleNorm /\ IdleProd /\ IdleStore

SpecValidate == StartValidate /\ [][NextValidate]_vars

-----------------------------------------------------------------------------

(* Two writers of the customer store: two tabs of the application share one *)
(* localStorage, and the getItem and setItem of a saveCustomer in one tab   *)
(* are two accesses to it, between which the other tab may run.             *)

Writers == {1, 2}

\* The customers the writers save, and what the store holds at the start.
WriterCustomers ==
    {[name |-> n, city |-> "York"] : n \in {"Acme", "Bolt", "Cole"}}
WriterStores ==
    {[EmptyStorage EXCEPT !["customerDatabase"] = d] :
        d \in {NoItem, JSONStringify(<<[name |-> "Cole", city |-> "Hull"]>>)}}

NotSaving == [pc |-> "idle"]

\* The accesses to the store made so far.
Accesses ==
    Cardinality({w \in Writers : writer[w].pc = "read"})
        + 2 * Cardinality({w \in Writers : writer[w].pc = "done"})

\* A writer that re-reads the store when it writes.
DataAtWrite_Reread(store, data) == store["customerDatabase"]

\* The text saveCustomer works on when it writes: the one its getItem returned.
DataAtWrite(store, data) == data

\* script.js 335: localStorage.getItem("customerDatabase") of the saveCustomer
\* of writer w.
BeginSave(w, customer) ==
    /\ writer[w].pc = "idle"
    /\ writer' = [writer EXCEPT ![w] =
                     [pc |-> "read", customer |-> customer,
                      data |-> storage["customerDatabase"],
                      readAt |-> Accesses + 1]]
    /\ UNCHANGED <<storeVars, dateVars, utilVars, normVars, prodVars, uiVars, addressVars,
                   selVars, validateCall>>

\* script.js 336-347: the rest of that saveCustomer, from JSON.parse to the
\* setItem and the return.
EndSave(w) ==
    /\ writer[w].pc = "read"
    /\ \E r \in {saveCustomer(
                    [storage EXCEPT !["customerDatabase"] =
                         DataAtWrite(storage, writer[w].data)],
                    writer[w].customer, FALSE)} :
          /\ storage' = r.store
          /\ writer' = [writer EXCEPT ![w] =
                           [pc |-> "done", customer |-> writer[w].customer,
                            data |-> writer[w].data, readAt |-> writer[w].readAt,
                            wroteAt |-> Accesses + 1, ret |-> r.ret]]
    /\ UNCHANGED <<now, call, lastSaved, dateVars, utilVars, normVars, prodVars, uiVars,
                   addressVars, selVars, validateCall>>

NextWriters ==
    \/ \E w \in Writers, customer \in WriterCustomers : BeginSave(w, customer)
    \/ \E w \in Writers : EndSave(w)

StartWriters ==
    /\ storage \in WriterStores
    /\ now = 0 /\ call = NoCall /\ lastSaved = <<>>
    /\ writer = [w \in Writers |-> NotSaving]
    /\ IdleDates /\ IdleUtil /\ IdleNorm /\ IdleProd /\ IdleUI /\ IdleAddress
    /\ IdleSelector /\ validateCall = NoValidation

SpecWriters == StartWriters /\ [][NextWriters]_vars

(* The search inputs of a page: the user types into them, leaves them,      *)
(* clicks on dropdown items and elsewhere; timers fire; the server answers. *)

MaxEvents == 2

\* What the user leaves in a customer input: one character, one character and
\* a space, and two texts of two characters. In the product code input: one
\* character and two.
TypedValues(inp) ==
    IF inp = "product" THEN {<<"a">>, <<"a", "b">>}
    ELSE {<<"a">>, <<"a", " ">>, <<"a", "b">>, <<"b", "c">>}

\* The customers and products the server answers with.
Acme ==
    [id |-> <<"1">>, account_number |-> <<"7">>, name |-> <<"A", "c">>,
     address |-> <<"H">>, addresses |-> <<>>]
Bolt ==
    [id |-> <<"2">>, account_number |-> <<"8">>, name |-> <<"B", "o">>,
     address |-> <<>>,
     addresses |-> <<[label |-> <<"D">>, street |-> <<"M">>, city |-> <<"L">>,
                      zip |-> <<>>, phone |-> <<>>],
                     [label |-> <<"S">>, street |-> <<>>, city |-> <<>>,
                      zip |-> <<>>, phone |-> <<"5">>]>>]
Widget == [code |-> <<"W", "1">>, name |-> <<"W", "i">>]

Results(inp) ==
    IF inp = "product" THEN {<<>>, <<Widget>>}
    ELSE {<<>>, <<Acme>>, <<Bolt, Acme>>}

Outcomes(inp) == Failures \cup {Ok(results) : results \in Results(inp)}

\* The search inputs in document order: the customer inputs before the
\* product row, or after it.
Layouts == {<<"account", "name", "product">>, <<"product", "account", "name">>}

\* The ids the handles hold.
Handles ==
    {customerSearchTimeout, productSearchTimeout}
    \cup {searchTimeoutOf[inp] : inp \in SearchInputs}

\* History of an input: the value its latest input event left to the handler,
\* whether a timer was started for it, the time since then (SearchDelay + 1
\* for any longer time), the lookups issued for the input since then, and
\* whether another input has had an input event since then. burst counts the
\* input events of the input up to the latest that each started a timer while
\* the timer of the one before was still pending. selected tells whether an
\* entry of the input's dropdown has been selected since then.
NoInput == [value |-> <<>>, qualifies |-> FALSE, age |-> 0, lookups |-> 0,
            disturbed |-> FALSE, burst |-> 0, selected |-> FALSE]

SearchTimersOf(inp) == {t \in timers : t.kind = "search" /\ t.inp = inp}

InputNoted(inp, value, qualifies) ==
    [j \in SearchInputs |->
        IF j = inp
        THEN [value |-> value, qualifies |-> qualifies, age |-> 0,
              lookups |-> 0, disturbed |-> FALSE, selected |-> FALSE,
              burst |-> IF ~qualifies THEN 0
                        ELSE IF SearchTimersOf(inp) # {} THEN lastInput[inp].burst + 1
                        ELSE 1]
        ELSE [lastInput[j] EXCEPT !.disturbed = TRUE]]

\* A fetch that aborts the lookups in flight for the same input.
Fetch_Aborting(inp, query) ==
    /\ inflight' = {r \in inflight : r.inp # inp}
                      \cup {[n |-> issued + 1, inp |-> inp, query |-> query]}
    /\ issued' = issued + 1
    /\ lastInput' = [lastInput EXCEPT ![inp].lookups = @ + 1]

\* fetch(...): the lookup is in flight, numbered by its place among the
\* lookups issued.
Fetch(inp, query) ==
    /\ inflight' = inflight \cup {[n |-> issued + 1, inp |-> inp, query |-> query]}
    /\ issued' = issued + 1
    /\ lastInput' = [lastInput EXCEPT ![inp].lookups = @ + 1]

nonUIVars == <<dateVars, utilVars, normVars, prodVars, storeVars, addressVars, extVars>>

\* 100 ms pass: no pending timer is due. (With no timer pending the passing of
\* time changes nothing.)
TimePasses ==
    /\ timers # {}
    /\ \A t \in timers : t.left > 0
    /\ timers' = {[t EXCEPT !.left = @ - 1] : t \in timers}
    /\ lastInput' = [j \in SearchInputs |->
                        [lastInput[j] EXCEPT !.age = IF @ > SearchDelay THEN @ ELSE @ + 1]]
    /\ uiEvent' = [type |-> "time"]
    /\ UNCHANGED <<variant, layout, fields, customerSearchTimeout,
                   productSearchTimeout, searchTimeoutOf, inflight, dropdowns,
                   currentSelectedCustomer, addressSelector, onSelectCalls,
                   issued, eventCount, nonUIVars>>

\* part_000 176-201: the input listener of setupCustomerInputField.
OnCustomerInput(inp, raw) ==
    /\ variant = "part_000" /\ eventCount < MaxEvents
    /\ \E value \in {trim(raw)}, id \in {FreshId(timers, Handles)} :
          /\ IF Len(value) < MinQueryLength
             THEN /\ timers' = clearTimeout(timers, customerSearchTimeout)
                  /\ dropdowns' = hideCustomerDropdown(dropdowns, inp)
                  /\ fields' = clearCustomerFields(
                                   [fields EXCEPT ![inp] = raw],
                                   IF inp = "account" THEN {"name", "address"}
                                   ELSE {"account", "address"})
                  /\ currentSelectedCustomer' = Null
                  /\ UNCHANGED customerSearchTimeout
             ELSE /\ timers' = clearTimeout(timers, customerSearchTimeout)
                                  \cup {SearchTimer(id, inp, value)}
                  /\ customerSearchTimeout' = id
                  /\ fields' = [fields EXCEPT ![inp] = raw]
                  /\ UNCHANGED <<dropdowns, currentSelectedCustomer>>
          /\ lastInput' = InputNoted(inp, value, Len(value) >= MinQueryLength)
    /\ uiEvent' = [type |-> "input", inp |-> inp]
    /\ eventCount' = eventCount + 1
    /\ UNCHANGED <<variant, layout, productSearchTimeout, searchTimeoutOf,
                   inflight, addressSelector, onSelectCalls, issued, nonUIVars>>

\* part_000 668-682: handleProductInput.
OnProductInput(inp, raw) ==
    /\ variant = "part_000" /\ eventCount < MaxEvents
    /\ \E value \in {trim(raw)}, id \in {FreshId(timers, Handles)} :
          /\ IF Len(value) < MinQueryLength
             THEN /\ timers' = clearTimeout(timers, productSearchTimeout)
                  /\ dropdowns' = hideProductDropdown(dropdowns, inp)
                  /\ UNCHANGED productSearchTimeout
             ELSE /\ timers' = clearTimeout(timers, productSearchTimeout)
                                  \cup {SearchTimer(id, inp, value)}
                  /\ productSearchTimeout' = id
                  /\ UNCHANGED dropdowns
          /\ lastInput' = InputNoted(inp, value, Len(value) >= MinQueryLength)
    /\ fields' = [fields EXCEPT ![FieldOf(inp)] = raw]
    /\ uiEvent' = [type |-> "input", inp |-> inp]
    /\ eventCount' = eventCount + 1
    /\ UNCHANGED <<variant, layout, customerSearchTimeout, searchTimeoutOf,
                   inflight, currentSelectedCustomer, addressSelector,
                   onSelectCalls, issued, nonUIVars>>

\* part_000 203-209, 687-694: the blur listeners, which start a timer.
OnBlur(inp) ==
    /\ variant = "part_000" /\ eventCount < MaxEvents
    /\ timers' = timers \cup {BlurTimer(FreshId(timers, Handles), inp)}
    /\ uiEvent' = [type |-> "blur", inp |-> inp]
    /\ eventCount' = eventCount + 1
    /\ UNCHANGED <<variant, layout, fields, customerSearchTimeout,
                   productSearchTimeout, searchTimeoutOf, inflight, dropdowns,
                   currentSelectedCustomer, addressSelector, onSelectCalls,
                   issued, lastInput, nonUIVars>>

\* part_000 159-163: a click outside every search container.
OnDocumentClick ==
    /\ variant = "part_000" /\ eventCount < MaxEvents
    /\ dropdowns' = hideAllDropdowns(dropdowns)
    /\ uiEvent' = [type |-> "click"]
    /\ eventCount' = eventCount + 1
    /\ UNCHANGED <<variant, layout, fields, timers, customerSearchTimeout,
                   productSearchTimeout, searchTimeoutOf, inflight,
                   currentSelectedCustomer, addressSelector, onSelectCalls,
                   issued, lastInput, nonUIVars>>

\* part_000 191-200, 679-681: a search timer fires and calls searchCustomers
\* or searchProducts, which runs up to its fetch.
SearchTimerFires(t) ==
    /\ variant = "part_000"
    /\ t \in timers /\ t.kind = "search" /\ t.left = 0
    /\ timers' = timers \ {t}
    /\ Fetch(t.inp, t.value)
    /\ uiEvent' = [type |-> "timer", kind |-> "search", inp |-> t.inp]
    /\ UNCHANGED <<variant, layout, fields, customerSearchTimeout,
                   productSearchTimeout, searchTimeoutOf, dropdowns,
                   currentSelectedCustomer, addressSelector, onSelectCalls,
                   eventCount, nonUIVars>>

\* part_000 204-208, 689-693: a blur timer fires; hover tells whether the
\* pointer is over a dropdown, which it can only be when there is one.
BlurTimerFires(t, hover) ==
    /\ variant = "part_000"
    /\ t \in timers /\ t.kind = "blur" /\ t.left = 0
    /\ hover => dropdowns # NoDropdowns
    /\ timers' = timers \ {t}
    /\ dropdowns' = IF hover THEN dropdowns
                    ELSE IF t.inp = "product" THEN hideProductDropdown(dropdowns, t.inp)
                    ELSE hideCustomerDropdown(dropdowns, t.inp)
    /\ uiEvent' = [type |-> "timer", kind |-> "blur", inp |-> t.inp]
    /\ UNCHANGED <<variant, layout, fields, customerSearchTimeout,
                   productSearchTimeout, searchTimeoutOf, inflight,
                   currentSelectedCustomer, addressSelector, onSelectCalls,
                   issued, lastInput, eventCount, nonUIVars>>

\* part_000 224-250, 701-720: the fetch of a lookup is answered and
\* searchCustomers or searchProducts runs to its end. The event notes the
\* number of dropdowns under the input before it.
Response(r, outcome) ==
    /\ variant = "part_000"
    /\ r \in inflight /\ outcome \in Outcomes(r.inp)
    /\ inflight' = inflight \ {r}
    /\ dropdowns' = IF r.inp = "product"
                    THEN searchProductsRemote(dropdowns, r.inp, outcome)
                    ELSE searchCustomers(dropdowns, r.inp, outcome)
    /\ uiEvent' = [type |-> "response", inp |-> r.inp, n |-> r.n, outcome |-> outcome,
                   before |-> Len(dropdowns[r.inp])]
    /\ UNCHANGED <<variant, layout, fields, timers, customerSearchTimeout,
                   productSearchTimeout, searchTimeoutOf, currentSelectedCustomer,
                   addressSelector, onSelectCalls, issued, lastInput, eventCount,
                   nonUIVars>>

\* part_000 319-323, 334-360: mousedown on the k-th item of the j-th dropdown
\* of a customer input: selectCustomer, then hideCustomerDropdown.
SelectCustomer(inp, j, k) ==
    /\ variant = "part_000" /\ inp \in CustomerSearchInputs
    /\ j \in 1..Len(dropdowns[inp]) /\ k \in 1..Len(dropdowns[inp][j])
    /\ \E customer \in {dropdowns[inp][j][k]} :
          /\ currentSelectedCustomer' = customer
          /\ fields' = [fields EXCEPT !["account"] = customer.account_number,
                                      !["name"] = customer.name]
          /\ addressSelector' = [addresses |-> AddressesOf(customer), value |-> <<>>]
          /\ onSelectCalls' = Append(onSelectCalls, customer)
          /\ uiEvent' = [type |-> "select", inp |-> inp, item |-> customer]
    /\ dropdowns' = hideCustomerDropdown(dropdowns, inp)
    /\ lastInput' = [lastInput EXCEPT ![inp].selected = TRUE]
    /\ UNCHANGED <<variant, layout, timers, customerSearchTimeout,
                   productSearchTimeout, searchTimeoutOf, inflight, issued,
                   eventCount, nonUIVars>>

\* part_000 775-779, 794-805: mousedown on an item of a product dropdown.
SelectProduct(inp, j, k) ==
    /\ variant = "part_000" /\ inp = "product"
    /\ j \in 1..Len(dropdowns[inp]) /\ k \in 1..Len(dropdowns[inp][j])
    /\ \E product \in {dropdowns[inp][j][k]} :
          /\ fields' = [fields EXCEPT !["productCode"] = product.code,
                                      !["productName"] = product.name]
          /\ uiEvent' = [type |-> "select", inp |-> inp, item |-> product]
    /\ dropdowns' = hideProductDropdown(dropdowns, inp)
    /\ lastInput' = [lastInput EXCEPT ![inp].selected = TRUE]
    /\ UNCHANGED <<variant, layout, timers, customerSearchTimeout,
                   productSearchTimeout, searchTimeoutOf, inflight,
                   currentSelectedCustomer, addressSelector, onSelectCalls,
                   issued, eventCount, nonUIVars>>

NextSearch_000 ==
    \/ TimePasses
    \/ \E inp \in CustomerSearchInputs : \E raw \in TypedValues(inp) :
          OnCustomerInput(inp, raw)
    \/ \E raw \in TypedValues("product") : OnProductInput("product", raw)
    \/ \E inp \in SearchInputs : OnBlur(inp)
    \/ OnDocumentClick
    \/ \E t \in timers : SearchTimerFires(t)
    \/ \E t \in timers, hover \in BOOLEAN : BlurTimerFires(t, hover)
    \/ \E r \in inflight : \E outcome \in Outcomes(r.inp) : Response(r, outcome)
    \/ \E inp \in CustomerSearchInputs, j \in 1..2, k \in 1..2 : SelectCustomer(inp, j, k)
    \/ \E j \in 1..2, k \in 1..2 : SelectProduct("product", j, k)

\* The page as it is loaded: empty fields, no dropdown, nothing pending.
StartPage ==
    /\ fields = [f \in FormFields |-> <<>>]
    /\ timers = {}
    /\ customerSearchTimeout = NoTimer /\ productSearchTimeout = NoTimer
    /\ searchTimeoutOf = [inp \in SearchInputs |-> NoTimer]
    /\ inflight = {} /\ dropdowns = NoDropdowns
    /\ currentSelectedCustomer = Null /\ addressSelector = Null
    /\ onSelectCalls = <<>> /\ issued = 0
    /\ lastInput = [inp \in SearchInputs |-> NoInput]
    /\ eventCount = 0 /\ uiEvent = [type |-> "none"]
    /\ IdleAddress /\ IdleExt /\ IdleDates /\ IdleUtil /\ IdleNorm /\ IdleProd /\ IdleStore

StartSearch_000 ==
    /\ variant = "part_000" /\ layout = <<"account", "name", "product">>
    /\ StartPage

SpecSearch_000 == StartSearch_000 /\ [][NextSearch_000]_vars

-----------------------------------------------------------------------------
(* The same page loading part_002.                                          *)

\* part_002 119-130, 134-145: the input listeners of setupCustomerSearch. The
\* value is taken as typed, and the timer's handle is kept on the input.
OnCustomerInput_002(inp, raw) ==
    /\ variant = "part_002" /\ eventCount < MaxEvents
    /\ \E id \in {FreshId(timers, Handles)} :
          IF Len(raw) >= MinQueryLength
          THEN /\ timers' = clearTimeout(timers, searchTimeoutOf[inp])
                               \cup {SearchTimer(id, inp, raw)}
               /\ searchTimeoutOf' = [searchTimeoutOf EXCEPT ![inp] = id]
               /\ UNCHANGED dropdowns
          ELSE /\ timers' = clearTimeout(timers, searchTimeoutOf[inp])
               /\ dropdowns' = hideCustomerDropdown_002(dropdowns, layout)
               /\ UNCHANGED searchTimeoutOf
    /\ fields' = [fields EXCEPT ![inp] = raw]
    /\ lastInput' = InputNoted(inp, raw, Len(raw) >= MinQueryLength)
    /\ uiEvent' = [type |-> "input", inp |-> inp]
    /\ eventCount' = eventCount + 1
    /\ UNCHANGED <<variant, layout, customerSearchTimeout,
                   productSearchTimeout, inflight, currentSelectedCustomer,
                   addressSelector, onSelectCalls, issued, nonUIVars>>

\* part_002 274-285: the input listener of setupProductSearch.
OnProductInput_002(inp, raw) ==
    /\ variant = "part_002" /\ eventCount < MaxEvents
    /\ \E id \in {FreshId(timers, Handles)} :
          IF Len(raw) >= MinQueryLength
          THEN /\ timers' = clearTimeout(timers, searchTimeoutOf[inp])
                               \cup {SearchTimer(id, inp, raw)}
               /\ searchTimeoutOf' = [searchTimeoutOf EXCEPT ![inp] = id]
               /\ UNCHANGED dropdowns
          ELSE /\ timers' = clearTimeout(timers, searchTimeoutOf[inp])
               /\ dropdowns' = hideDropdown_002(dropdowns, inp)
               /\ UNCHANGED searchTimeoutOf
    /\ fields' = [fields EXCEPT ![FieldOf(inp)] = raw]
    /\ lastInput' = InputNoted(inp, raw, Len(raw) >= MinQueryLength)
    /\ uiEvent' = [type |-> "input", inp |-> inp]
    /\ eventCount' = eventCount + 1
    /\ UNCHANGED <<variant, layout, customerSearchTimeout,
                   productSearchTimeout, inflight, currentSelectedCustomer,
                   addressSelector, onSelectCalls, issued, nonUIVars>>

\* part_002 287-293: the blur listener of setupProductSearch. The customer
\* inputs have none.
OnProductBlur_002(inp) ==
    /\ variant = "part_002" /\ eventCount < MaxEvents
    /\ timers' = timers \cup {BlurTimer(FreshId(timers, Handles), inp)}
    /\ uiEvent' = [type |-> "blur", inp |-> inp]
    /\ eventCount' = eventCount + 1
    /\ UNCHANGED <<variant, layout, fields, customerSearchTimeout,
                   productSearchTimeout, searchTimeoutOf, inflight, dropdowns,
                   currentSelectedCustomer, addressSelector, onSelectCalls,
                   issued, lastInput, nonUIVars>>

\* part_002 148-152: a click outside every search container.
OnDocumentClick_002 ==
    /\ variant = "part_002" /\ eventCount < MaxEvents
    /\ dropdowns' = hideCustomerDropdown_002(dropdowns, layout)
    /\ uiEvent' = [type |-> "click"]
    /\ eventCount' = eventCount + 1
    /\ UNCHANGED <<variant, layout, fields, timers, customerSearchTimeout,
                   productSearchTimeout, searchTimeoutOf, inflight,
                   currentSelectedCustomer, addressSelector, onSelectCalls,
                   issued, lastInput, nonUIVars>>

\* part_002 124-126, 139-141, 279-281: a search timer fires and calls
\* searchCustomersAPI or searchProductsAPI, which runs up to its fetch.
SearchTimerFires_002(t) ==
    /\ variant = "part_002"
    /\ t \in timers /\ t.kind = "search" /\ t.left = 0
    /\ timers' = timers \ {t}
    /\ Fetch(t.inp, t.value)
    /\ uiEvent' = [type |-> "timer", kind |-> "search", inp |-> t.inp]
    /\ UNCHANGED <<variant, layout, fields, customerSearchTimeout,
                   productSearchTimeout, searchTimeoutOf, dropdowns,
                   currentSelectedCustomer, addressSelector, onSelectCalls,
                   eventCount, nonUIVars>>

\* part_002 288-292: the blur timer of the product input fires.
BlurTimerFires_002(t, hover) ==
    /\ variant = "part_002"
    /\ t \in timers /\ t.kind = "blur" /\ t.left = 0
    /\ hover => dropdowns # NoDropdowns
    /\ timers' = timers \ {t}
    /\ dropdowns' = IF hover THEN dropdowns ELSE hideDropdown_002(dropdowns, t.inp)
    /\ uiEvent' = [type |-> "timer", kind |-> "blur", inp |-> t.inp]
    /\ UNCHANGED <<variant, layout, fields, customerSearchTimeout,
                   productSearchTimeout, searchTimeoutOf, inflight,
                   currentSelectedCustomer, addressSelector, onSelectCalls,
                   issued, lastInput, eventCount, nonUIVars>>

\* part_002 160-172, 301-313: the fetch of a lookup is answered and
\* searchCustomersAPI or searchProductsAPI runs to its end.
Response_002(r, outcome) ==
    /\ variant = "part_002"
    /\ r \in inflight /\ outcome \in Outcomes(r.inp)
    /\ inflight' = inflight \ {r}
    /\ dropdowns' = IF r.inp = "product"
                    THEN searchProductsAPI(dropdowns, r.inp, outcome)
                    ELSE searchCustomersAPI(dropdowns, layout, r.inp, outcome)
    /\ uiEvent' = [type |-> "response", inp |-> r.inp, n |-> r.n, outcome |-> outcome,
                   before |-> Len(dropdowns[r.inp])]
    /\ UNCHANGED <<variant, layout, fields, timers, customerSearchTimeout,
                   productSearchTimeout, searchTimeoutOf, currentSelectedCustomer,
                   addressSelector, onSelectCalls, issued, lastInput, eventCount,
                   nonUIVars>>

\* part_002 224-226, 247-263: click on an item of a customer dropdown:
\* selectCustomer, which hides the dropdown itself. This copy keeps no
\* selected customer and renders no address selector.
SelectCustomer_002(inp, j, k) ==
    /\ variant = "part_002" /\ inp \in CustomerSearchInputs
    /\ j \in 1..Len(dropdowns[inp]) /\ k \in 1..Len(dropdowns[inp][j])
    /\ \E customer \in {dropdowns[inp][j][k]} :
          /\ fields' = [fields EXCEPT !["customerId"] = customer.id,
                                      !["account"] = customer.account_number,
                                      !["name"] = customer.name,
                                      !["address"] = customer.address]
          /\ onSelectCalls' = Append(onSelectCalls, customer)
          /\ uiEvent' = [type |-> "select", inp |-> inp, item |-> customer]
    /\ dropdowns' = hideCustomerDropdown_002(dropdowns, layout)
    /\ lastInput' = [lastInput EXCEPT ![inp].selected = TRUE]
    /\ UNCHANGED <<variant, layout, timers, customerSearchTimeout,
                   productSearchTimeout, searchTimeoutOf, inflight,
                   currentSelectedCustomer, addressSelector, issued, eventCount, nonUIVars>>

\* part_002 352-355, 366-376: click on an item of a product dropdown.
SelectProduct_002(inp, j, k) ==
    /\ variant = "part_002" /\ inp = "product"
    /\ j \in 1..Len(dropdowns[inp]) /\ k \in 1..Len(dropdowns[inp][j])
    /\ \E product \in {dropdowns[inp][j][k]} :
          /\ fields' = [fields EXCEPT !["productCode"] = product.code,
                                      !["productName"] = product.name]
          /\ uiEvent' = [type |-> "select", inp |-> inp, item |-> product]
    /\ dropdowns' = hideDropdown_002(dropdowns, inp)
    /\ lastInput' = [lastInput EXCEPT ![inp].selected = TRUE]
    /\ UNCHANGED <<variant, layout, timers, customerSearchTimeout,
                   productSearchTimeout, searchTimeoutOf, inflight,
                   currentSelectedCustomer, addressSelector, onSelectCalls,
                   issued, eventCount, nonUIVars>>

NextSearch_002 ==
    \/ TimePasses
    \/ \E inp \in CustomerSearchInputs : \E raw \in TypedValues(inp) :
          OnCustomerInput_002(inp, raw)
    \/ \E raw \in TypedValues("product") : OnProductInput_002("product", raw)
    \/ OnProductBlur_002("product")
    \/ OnDocumentClick_002
    \/ \E t \in timers : SearchTimerFires_002(t)
    \/ \E t \in timers, hover \in BOOLEAN : BlurTimerFires_002(t, hover)
    \/ \E r \in inflight : \E outcome \in Outcomes(r.inp) : Response_002(r, outcome)
    \/ \E inp \in CustomerSearchInputs, j \in 1..2, k \in 1..2 : SelectCustomer_002(inp, j, k)
    \/ \E j \in 1..2, k \in 1..2 : SelectProduct_002("product", j, k)

StartSearch_002 ==
    /\ variant = "part_002" /\ layout \in Layouts
    /\ StartPage

SpecSearch_002 == StartSearch_002 /\ [][NextSearch_002]_vars

\* The page loading either copy.
\* The part_002 page once "ab" was typed into the account input, the delay
\* ran out and the lookup was answered with one customer: that customer's
\* dropdown is open under the account input.
FirstLookupAnswered ==
    /\ variant = "part_002" /\ layout \in Layouts
    /\ fields = [f \in FormFields |-> IF f = "account" THEN <<"a", "b">> ELSE <<>>]
    /\ timers = {}
    /\ customerSearchTimeout = NoTimer /\ productSearchTimeout = NoTimer
    /\ searchTimeoutOf = [inp \in SearchInputs |-> IF inp = "account" THEN 1 ELSE NoTimer]
    /\ inflight = {}
    /\ dropdowns = [NoDropdowns EXCEPT !["account"] = <<<<Acme>>>>]
    /\ currentSelectedCustomer = Null /\ addressSelector = Null
    /\ onSelectCalls = <<>> /\ issued = 1
    /\ lastInput = [inp \in SearchInputs |->
                       IF inp = "account"
                       THEN [value |-> <<"a", "b">>, qualifies |-> TRUE,
                             age |-> SearchDelay, lookups |-> 1,
                             disturbed |-> FALSE, burst |-> 1, selected |-> FALSE]
                       ELSE [NoInput EXCEPT !.age = SearchDelay,
                                            !.disturbed = TRUE]]
    /\ uiEvent = [type |-> "response", n |-> 1, inp |-> "account",
                  outcome |-> Ok(<<Acme>>), before |-> 0]
    /\ IdleAddress /\ IdleExt /\ IdleDates /\ IdleUtil /\ IdleNorm /\ IdleProd /\ IdleStore

\* The part_002 page from there on, for MaxEvents further events.
StartAnswered_002 == FirstLookupAnswered /\ eventCount = 0

SpecSearchAnswered_002 == StartAnswered_002 /\ [][NextSearch_002]_vars

NextSearch == NextSearch_000 \/ NextSearch_002

StartSearch == StartSearch_000 \/ StartSearch_002

SpecSearch == StartSearch /\ [][NextSearch]_vars

-----------------------------------------------------------------------------
(* ADDRESS SELECTOR: the selector handleCustomerAddresses renders into its  *)
(* container, inside a form with an address display field. part_000 offers *)
(* the customer's addresses and a Refresh button; part_001 offers them and  *)
(* an "Add New Address" option with an inline sub-form.                     *)

MaxSelectorEvents == 8

HiddenNames ==
    {"address_label", "new_address_label", "new_address_street",
     "new_address_city", "new_address_zip", "new_address_phone"}

NewAddressFlag ==
    <<"_", "_", "N", "E", "W", "_", "A", "D", "D", "R", "E", "S", "S", "_", "_">>
NewFlag == <<"_", "_", "N", "E", "W", "_", "_">>

\* The value attributes of the options: "" for "Choose location...", the
\* index of an address, and "new".
NoOption == <<>>
NewOption == <<"n", "e", "w">>
IndexOptions == <<<<"0">>, <<"1">>>>
\* parseInt(selectedValue), as a position in the list of addresses.
parseInt(selectedValue) == CHOOSE i \in 1..Len(IndexOptions) : IndexOptions[i] = selectedValue

EmptySubForm == [label |-> <<>>, street |-> <<>>, city |-> <<>>, zip |-> <<>>, phone |-> <<>>]

\* container.innerHTML = ...: the selector as showAddressSelector renders it.
Rendered(addresses) ==
    [rendered |-> TRUE, addresses |-> addresses, value |-> NoOption,
     displayShown |-> FALSE, newFormShown |-> FALSE, subForm |-> EmptySubForm]

\* The options of the select.
OptionsOf(sel, v) ==
    {NoOption} \cup {IndexOptions[i] : i \in 1..Len(sel.addresses)}
        \cup (IF v = "part_001" THEN {NewOption} ELSE {})

\* An updateAddressLabel that does not create the field.
updateAddressLabel_NoCreate(h, value) ==
    IF h["address_label"] = <<>> THEN h
    ELSE [h EXCEPT !["address_label"] = <<value>> \o Tail(@)]

\* An updateAddressLabel that creates a field on every call.
updateAddressLabel_AlwaysCreate(h, value) ==
    [h EXCEPT !["address_label"] = @ \o <<value>>]

\* updateAddressLabel(value): the first address_label field of the document
\* gets the value, after being created in the form when there is none.
updateAddressLabel(h, value) ==
    IF h["address_label"] = <<>> THEN [h EXCEPT !["address_label"] = <<value>>]
    ELSE [h EXCEPT !["address_label"] = <<value>> \o Tail(@)]

\* The fields of the new address, trimmed.
TrimmedSubForm(subForm) == [f \in DOMAIN subForm |-> trim(subForm[f])]

\* A save that leaves the hidden fields of an earlier save in the form.
HiddenAfterSave_Appending(h, newAddress) ==
    [n \in HiddenNames |->
        h[n] \o <<CASE n = "address_label" -> NewFlag
                    [] n = "new_address_label" -> newAddress.label
                    [] n = "new_address_street" -> newAddress.street
                    [] n = "new_address_city" -> newAddress.city
                    [] n = "new_address_zip" -> newAddress.zip
                    [] n = "new_address_phone" -> newAddress.phone>>]

\* The hidden fields of the form after the click listener of Save New Address
\* removed those of the six names and appended one of each.
HiddenAfterSave(h, newAddress) ==
    [n \in HiddenNames |->
        <<CASE n = "address_label" -> NewFlag
            [] n = "new_address_label" -> newAddress.label
            [] n = "new_address_street" -> newAddress.street
            [] n = "new_address_city" -> newAddress.city
            [] n = "new_address_zip" -> newAddress.zip
            [] n = "new_address_phone" -> newAddress.phone>>]

\* The value of the first address_label field, "" when there is none.
AddressLabelValue(h) ==
    IF h["address_label"] = <<>> THEN <<>> ELSE h["address_label"][1]

\* getSelectedAddress(container)
getSelectedAddress(sel, h) ==
    IF ~sel.rendered THEN Null
    ELSE IF sel.value = NewOption
    THEN LET newAddressData == TrimmedSubForm(sel.subForm)
         IN  IF newAddressData.label = <<>> THEN Null
             ELSE [label |-> newAddressData.label, street |-> newAddressData.street,
                   city |-> newAddressData.city, zip |-> newAddressData.zip,
                   phone |-> newAddressData.phone, isNew |-> TRUE]
    ELSE IF sel.value # NoOption
    THEN [label |-> AddressLabelValue(h), isNew |-> FALSE]
    ELSE Null

\* The customers whose addresses are rendered, and what the user leaves in
\* the sub-form.
SelectorCustomers == {Acme, Bolt}
SubForms ==
    {[label |-> <<" ">>, street |-> <<"s">>, city |-> <<>>, zip |-> <<>>, phone |-> <<>>],
     [label |-> <<" ", "N">>, street |-> <<"s", " ">>, city |-> <<"c">>, zip |-> <<>>,
      phone |-> <<"1">>],
     [label |-> <<"O">>, street |-> <<>>, city |-> <<>>, zip |-> <<"z">>, phone |-> <<>>]}

nonSelVars == <<dateVars, utilVars, normVars, prodVars, storeVars, uiVars, addressVars,
                validateCall, writer>>

SelectorStep(event) ==
    /\ selCount < MaxSelectorEvents
    /\ selCount' = selCount + 1
    /\ selEvent' = event
    /\ UNCHANGED <<selVariant, nonSelVars>>

\* part_000 366-405, part_001 366-405: handleCustomerAddresses(customer, ...),
\* called when a customer is selected.
HandleCustomerAddresses(customer) ==
    /\ selVariant \in {"part_000", "part_001"}
    /\ selector' = Rendered(AddressesOf(customer))
    /\ UNCHANGED <<addressInput, hidden>>
    /\ SelectorStep([type |-> "render", customer |-> customer])

\* part_000 477-503: the Refresh button is clicked and its lookup answered
\* with the customer, whose addresses are rendered anew.
RefreshAddresses(customer) ==
    /\ selVariant = "part_000" /\ selector.rendered
    /\ selector' = Rendered(AddressesOf(customer))
    /\ UNCHANGED <<addressInput, hidden>>
    /\ SelectorStep([type |-> "refresh", customer |-> customer])

\* part_000 449-473: the change listener of the select.
ChooseOption_000(selectedValue) ==
    /\ selVariant = "part_000" /\ selector.rendered
    /\ selectedValue \in OptionsOf(selector, selVariant) \ {selector.value}
    /\ IF selectedValue = NoOption
       THEN /\ selector' = [selector EXCEPT !.value = selectedValue,
                                            !.displayShown = FALSE]
            /\ hidden' = updateAddressLabel(hidden, <<>>)
            /\ UNCHANGED addressInput
       ELSE \E selectedAddress \in {selector.addresses[parseInt(selectedValue)]} :
               /\ selector' = [selector EXCEPT !.value = selectedValue,
                                               !.displayShown = TRUE]
               /\ addressInput' = formatAddressDisplay(selectedAddress)
               /\ hidden' = updateAddressLabel(hidden, selectedAddress.label)
    /\ SelectorStep([type |-> "change", value |-> selectedValue,
                     labelFields |-> Len(hidden["address_label"])])

\* part_001 477-527: the change listener of the select.
ChooseOption_001(selectedValue) ==
    /\ selVariant = "part_001" /\ selector.rendered
    /\ selectedValue \in OptionsOf(selector, selVariant) \ {selector.value}
    /\ IF selectedValue = NewOption
       THEN /\ selector' = [selector EXCEPT !.value = selectedValue,
                                            !.displayShown = FALSE,
                                            !.newFormShown = TRUE]
            /\ addressInput' = <<>>
            /\ hidden' = updateAddressLabel(hidden, NewAddressFlag)
       ELSE IF selectedValue = NoOption
       THEN /\ selector' = [selector EXCEPT !.value = selectedValue,
                                            !.displayShown = FALSE,
                                            !.newFormShown = FALSE]
            /\ addressInput' = <<>>
            /\ hidden' = updateAddressLabel(hidden, <<>>)
       ELSE \E selectedAddress \in {selector.addresses[parseInt(selectedValue)]} :
               /\ selector' = [selector EXCEPT !.value = selectedValue,
                                               !.displayShown = TRUE,
                                               !.newFormShown = FALSE]
               /\ addressInput' = formatAddressDisplay(selectedAddress)
               /\ hidden' = updateAddressLabel(hidden, selectedAddress.label)
    /\ SelectorStep([type |-> "change", value |-> selectedValue,
                     labelFields |-> Len(hidden["address_label"])])

\* part_001: the user fills the inputs of the sub-form, which has no listener.
FillSubForm(subForm) ==
    /\ selVariant = "part_001" /\ selector.rendered /\ selector.newFormShown
    /\ selector' = [selector EXCEPT !.subForm = subForm]
    /\ UNCHANGED <<addressInput, hidden>>
    /\ SelectorStep([type |-> "fill", subForm |-> subForm])

\* part_001 530-595: the click listener of Save New Address.
SaveNewAddress ==
    /\ selVariant = "part_001" /\ selector.rendered /\ selector.newFormShown
    /\ \E newAddress \in {TrimmedSubForm(selector.subForm)} :
          IF newAddress.label = <<>>
          THEN UNCHANGED <<selector, addressInput, hidden>>
          ELSE /\ selector' = [selector EXCEPT !.value = NewOption,
                                               !.displayShown = TRUE,
                                               !.newFormShown = FALSE,
                                               !.subForm = EmptySubForm]
               /\ hidden' = HiddenAfterSave(hidden, newAddress)
               /\ UNCHANGED addressInput
    /\ SelectorStep([type |-> "save", entered |-> selector.subForm, before |-> hidden])

\* part_000 545-598, part_001 636-689: getSelectedAddress(container)
GetSelectedAddress ==
    /\ selVariant \in {"part_000", "part_001"}
    /\ UNCHANGED <<selector, addressInput, hidden>>
    /\ SelectorStep([type |-> "get", ret |-> getSelectedAddress(selector, hidden)])

NextSelector ==
    \/ \E customer \in SelectorCustomers : HandleCustomerAddresses(customer)
    \/ \E customer \in SelectorCustomers : RefreshAddresses(customer)
    \/ \E selectedValue \in {NoOption} \cup {IndexOptions[i] : i \in 1..Len(IndexOptions)} :
          ChooseOption_000(selectedValue)
    \/ \E selectedValue \in {NoOption, NewOption}
                               \cup {IndexOptions[i] : i \in 1..Len(IndexOptions)} :
          ChooseOption_001(selectedValue)
    \/ \E subForm \in SubForms : FillSubForm(subForm)
    \/ SaveNewAddress
    \/ GetSelectedAddress

\* The page before a customer is selected: the container is empty, and the
\* form declares the hidden address_label field or not.
StartSelector ==
    /\ selVariant \in {"part_000", "part_001"}
    /\ selector = [rendered |-> FALSE]
    /\ addressInput = <<>>
    /\ \E declared \in BOOLEAN :
          hidden = [n \in HiddenNames |->
                       IF n = "address_label" /\ declared THEN <<<<>>>> ELSE <<>>]
    /\ selEvent = [type |-> "none"] /\ selCount = 0
    /\ validateCall = NoValidation /\ writer = <<>>
    /\ IdleUI /\ IdleAddress /\ IdleDates /\ IdleUtil /\ IdleNorm /\ IdleProd /\ IdleStore

SpecSelector == StartSelector /\ [][NextSelector]_vars

-----------------------------------------------------------------------------

(* CUSTOMER SELECTOR: the object initCustomerSelector(formElement) returns   *)
(* for a form with a customer select and, or not, an address select and an *)
(* address container.                                                      *)

MaxSelectorCalls == 4

\* The value "" of the first option of a select; the other options carry
\* the indexes 0, 1, ... of the list they were made from.
EmptyOption == -1

Depot == [label |-> "Depot", street |-> "9 Quay", city |-> "Hull", state |-> "",
          zip |-> "HU1", country |-> "UK"]

\* The customer database in the store: a customer of the legacy shape, one
\* with two addresses and one with a single address.
SelectorDatabase ==
    <<[name |-> "Acme", city |-> "York"],
      [name |-> "Bolt",
       addresses |-> <<[label |-> "Work", street |-> "2 Mill Rd", city |-> "Leeds",
                        state |-> "", zip |-> "LS1", country |-> "UK"],
                       [label |-> "Home", street |-> "", city |-> "", state |-> "",
                        zip |-> "", country |-> ""]>>],
      [name |-> "Cole", addresses |-> <<Depot>>]>>

\* The index options the address select of the page has before any customer
\* is chosen.
PageAddressOptions == {0, 2}

\* populateAddressSelect(customer)
populateAddressSelect(sel, customer) ==
    IF ~sel.hasSelect \/ ~sel.hasContainer THEN sel
    ELSE LET addresses == normalizeCustomer(customer)["addresses"]
         IN  IF Len(addresses) = 1
             THEN [sel EXCEPT !.containerShown = FALSE,
                              !.currentAddress = addresses[1]]
             ELSE [sel EXCEPT !.containerShown = TRUE,
                              !.addressOptions = Len(addresses),
                              !.addressValue =
                                  IF Len(addresses) > 0 THEN 0 ELSE EmptyOption,
                              !.currentAddress =
                                  IF Len(addresses) > 0
                                  THEN addresses[1] ELSE @]

\* handleCustomerChange()
handleCustomerChange(sel) ==
    IF sel.customerValue = EmptyOption
    THEN [sel EXCEPT !.currentCustomer = Null, !.currentAddress = Null,
                     !.containerShown = FALSE]
    ELSE LET customer == normalizeCustomer(sel.customers[sel.customerValue + 1])
         IN  populateAddressSelect([sel EXCEPT !.currentCustomer = customer], customer)

\* handleAddressChange()
handleAddressChange(sel) ==
    IF sel.currentCustomer = Null \/ ~sel.hasSelect THEN sel
    ELSE IF sel.addressValue = EmptyOption THEN [sel EXCEPT !.currentAddress = Null]
    ELSE [sel EXCEPT !.currentAddress =
              IF sel.addressValue + 1 <= Len(sel.currentCustomer["addresses"])
              THEN sel.currentCustomer["addresses"][sel.addressValue + 1]
              ELSE Undefined]

\* getSelectedData()
getSelectedData(sel) ==
    IF sel.currentCustomer = Null \/ sel.currentAddress \in {Null, Undefined} THEN Null
    ELSE [customer |-> sel.currentCustomer, address |-> sel.currentAddress]

\* refresh()
refresh(sel, store) ==
    [sel EXCEPT !.customers = loadCustomers(store, FALSE).customers,
                !.currentCustomer = Null, !.currentAddress = Null,
                !.customerValue = EmptyOption, !.containerShown = FALSE]

\* select.value = index: the option of that index is chosen, the value is ""
\* when the select has no such option.
SetOption(options, index) == IF index \in 0..(options - 1) THEN index ELSE EmptyOption

\* selectCustomer(customerName, addressIndex)
selectCustomer(sel, customerName, addressIndex) ==
    LET index == findIndexByName(sel.customers, customerName)
    IN  IF index = -1 THEN [sel |-> sel, ret |-> FALSE]
        ELSE LET changed == handleCustomerChange([sel EXCEPT !.customerValue = index])
             IN  [sel |-> IF /\ changed.hasSelect
                             /\ Len(changed.currentCustomer["addresses"]) > 1
                          THEN handleAddressChange(
                                   [changed EXCEPT !.addressValue =
                                        SetOption(changed.addressOptions, addressIndex)])
                          ELSE changed,
                  ret |-> TRUE]

SelectorCall(sel, event) ==
    /\ custSel.made /\ custSel.calls < MaxSelectorCalls
    /\ custSel' = [sel EXCEPT !.event = event, !.calls = @ + 1]
    /\ UNCHANGED <<debouncer, dateVars, normVars, prodVars, storeVars, restVars>>

\* The user chooses an option of the customer select.
ChangeCustomer(value) ==
    /\ custSel.made
    /\ value \in ({EmptyOption} \cup 0..(Len(custSel.customers) - 1)) \ {custSel.customerValue}
    /\ SelectorCall(handleCustomerChange([custSel EXCEPT !.customerValue = value]),
                    [type |-> "customer", value |-> value])

\* The user chooses an option of the address select, which is inside the
\* address container when the form has one.
ChangeAddress(value) ==
    /\ custSel.made /\ custSel.hasSelect
    /\ custSel.hasContainer => custSel.containerShown
    /\ value \in ({EmptyOption} \cup 0..(custSel.addressOptions - 1)) \ {custSel.addressValue}
    /\ SelectorCall(handleAddressChange([custSel EXCEPT !.addressValue = value]),
                    [type |-> "address", value |-> value])

CallSelectCustomer(customerName, addressIndex) ==
    /\ custSel.made
    /\ \E r \in {selectCustomer(custSel, customerName, addressIndex)} :
          SelectorCall(r.sel, [type |-> "selectCustomer", name |-> customerName,
                               addressIndex |-> addressIndex, ret |-> r.ret])

CallRefresh ==
    /\ custSel.made
    /\ SelectorCall(refresh(custSel, storage), [type |-> "refresh"])

NextCustomerSelector ==
    \/ \E value \in {EmptyOption} \cup 0..(Len(SelectorDatabase) - 1) : ChangeCustomer(value)
    \/ \E value \in {EmptyOption, 0, 1} : ChangeAddress(value)
    \/ \E customerName \in {"Acme", "Bolt", "Cole", "Nobody"}, addressIndex \in 0..2 :
          CallSelectCustomer(customerName, addressIndex)
    \/ CallRefresh

\* initCustomerSelector(formElement) has returned the selector.
StartCustomerSelector ==
    /\ storage = [EmptyStorage EXCEPT !["customerDatabase"] = JSONStringify(SelectorDatabase)]
    /\ now = 0 /\ call = NoCall /\ lastSaved = <<>>
    /\ \E hasSelect \in BOOLEAN, hasContainer \in BOOLEAN, options \in PageAddressOptions :
          custSel = [made |-> TRUE, hasSelect |-> hasSelect, hasContainer |-> hasContainer,
                     customers |-> loadCustomers(storage, FALSE).customers,
                     customerValue |-> EmptyOption,
                     addressOptions |-> IF hasSelect THEN options ELSE 0,
                     addressValue |-> EmptyOption, containerShown |-> FALSE,
                     currentCustomer |-> Null, currentAddress |-> Null,
                     event |-> [type |-> "init"], calls |-> 0]
    /\ debouncer = [made |-> FALSE]
    /\ IdleDates /\ IdleNorm /\ IdleProd /\ IdleRest

SpecCustomerSelector == StartCustomerSelector /\ [][NextCustomerSelector]_vars

-----------------------------------------------------------------------------

(* DEBOUNCE: a function returned by debounce(func, wait), the timers it     *)
(* sets and the invocations of func.                                       *)

MaxWait == 3
MaxDebouncedCalls == 4

DebounceArgs == {"x", "y"}

\* The function returned is called with args: clearTimeout(timeout);
\* timeout = setTimeout(later, wait), later holding the args of this call.
CallDebounced(args) ==
    /\ debouncer.made /\ Len(debouncer.calls) < MaxDebouncedCalls
    /\ \E id \in {FreshId(debouncer.timers, {debouncer.timeout})} :
          debouncer' = [debouncer EXCEPT
              !.timers = clearTimeout(@, debouncer.timeout)
                             \cup {[id |-> id, left |-> debouncer.wait, args |-> args]},
              !.timeout = id,
              !.calls = Append(@, args),
              !.age = 0,
              !.invocations = 0,
              !.event = [type |-> "call", args |-> args]]
    /\ UNCHANGED <<custSel, dateVars, normVars, prodVars, storeVars, restVars>>

\* A unit of time passes: no timer is overdue.
DebounceTimePasses ==
    /\ debouncer.made /\ debouncer.timers # {}
    /\ \A t \in debouncer.timers : t.left > 0
    /\ debouncer' = [debouncer EXCEPT
           !.timers = {[t EXCEPT !.left = @ - 1] : t \in debouncer.timers},
           !.age = @ + 1,
           !.event = [type |-> "time"]]
    /\ UNCHANGED <<custSel, dateVars, normVars, prodVars, storeVars, restVars>>

\* A timer is due and later runs: clearTimeout(timeout); func(...args).
LaterRuns(t) ==
    /\ debouncer.made /\ t \in debouncer.timers /\ t.left = 0
    /\ debouncer' = [debouncer EXCEPT
           !.timers = clearTimeout(@ \ {t}, debouncer.timeout),
           !.invocations = @ + 1,
           !.event = [type |-> "func", args |-> t.args, age |-> debouncer.age,
                      newer |-> \E u \in debouncer.timers : u.id # t.id]]
    /\ UNCHANGED <<custSel, dateVars, normVars, prodVars, storeVars, restVars>>

NextDebounce ==
    \/ \E args \in DebounceArgs : CallDebounced(args)
    \/ DebounceTimePasses
    \/ \E t \in debouncer.timers : LaterRuns(t)

\* debounce(func, wait) has returned the function; it was not called yet.
StartDebounce ==
    /\ \E wait \in 1..MaxWait :
          debouncer = [made |-> TRUE, wait |-> wait, timeout |-> NoTimer, timers |-> {},
                       calls |-> <<>>, age |-> 0, invocations |-> 0,
                       event |-> [type |-> "none"]]
    /\ custSel = [made |-> FALSE]
    /\ IdleDates /\ IdleNorm /\ IdleProd /\ IdleStore /\ IdleRest

SpecDebounce == StartDebounce /\ [][NextDebounce]_vars

-----------------------------------------------------------------------------

(* PROPERTIES                                                              *)

\* What the store holds, read without the accessors.
Stored(store, key) ==
    IF store[key] # NoItem /\ Parses(store[key]) THEN store[key].json ELSE <<>>
StoredCustomers(store) == Stored(store, "customerDatabase")
StoredCatalog(store) == Stored(store, "productDatabase")
StoredCallsheets(store) == Stored(store, "callsheets")
\* The stored list of a week: the empty list when the week has none.
StoredWeek(store, weekId) ==
    IF weekId \in DOMAIN StoredCallsheets(store)
    THEN StoredCallsheets(store)[weekId] ELSE <<>>

NoDuplicateNames(customers) ==
    \A i, j \in 1..Len(customers) :
        customers[i]["name"] = customers[j]["name"] => i = j

\* C1: starting from an empty customer store, every saveCustomer call that
\* returns leaves a list without two records of one name, in which the record
\* of each name is the customer of the latest call with that name; the call
\* replaces the record of its customer's name where it stood, or appends the
\* customer when the name is new, and changes no other record.
C1_SaveCustomerUpserts ==
    [][call'.op = "saveCustomer" =>
        LET old  == StoredCustomers(storage)
            new  == StoredCustomers(storage')
            c    == call'.customer
            at   == {i \in 1..Len(old) : old[i]["name"] = c["name"]}
        IN  /\ call'.ret = TRUE /\ ~call'.threw
            /\ NoDuplicateNames(new)
            /\ \A i \in 1..Len(new) :
                  /\ new[i]["name"] \in DOMAIN lastSaved'
                  /\ new[i] = lastSaved'[new[i]["name"]]
            /\ {new[i]["name"] : i \in 1..Len(new)} = DOMAIN lastSaved'
            /\ IF at = {}
               THEN new = old \o <<c>>
               ELSE \E i \in at : /\ Len(new) = Len(old)
                                  /\ \A k \in 1..Len(old) :
                                        new[k] = IF k = i THEN c ELSE old[k]
    ]_vars

\* C1's case: the last call updated the first of three stored records in place.
C1_Witness ==
    /\ call.op = "saveCustomer"
    /\ Len(StoredCustomers(storage)) = 3
    /\ StoredCustomers(storage)[1] = call.customer
    /\ "addresses" \in DOMAIN call.customer

\* A step of the clock: the only step that is not a call, so that in every other
\* step call' is the call the step made.
ClockStep == now' # now

\* entries without its element at the 0-based index.
WithoutIndex(entries, index) ==
    [k \in 1..(Len(entries) - 1) |-> IF k <= index THEN entries[k] ELSE entries[k + 1]]

\* C2: removeCallsheetEntry(weekId, idx) returns false and changes nothing
\* stored when idx < 0 or idx >= the length of the week's list (a week without a
\* list included); otherwise it returns true and the week's stored list is the
\* previous one without the element at idx.
C2_RemoveChecksBounds ==
    [][(call'.op = "removeCallsheetEntry" /\ ~ClockStep) =>
        LET old == StoredWeek(storage, call'.weekId)
            idx == call'.index
        IN  IF idx < 0 \/ idx >= Len(old)
            THEN call'.ret = FALSE /\ storage' = storage
            ELSE /\ call'.ret = TRUE
                 /\ call'.weekId \in DOMAIN StoredCallsheets(storage')
                 /\ StoredWeek(storage', call'.weekId) = WithoutIndex(old, idx)
    ]_vars

\* C2's case: the first of two entries was removed and the second is left.
C2_Witness ==
    /\ call.op = "removeCallsheetEntry" /\ call.ret = TRUE /\ call.index = 0
    /\ StoredWeek(storage, call.weekId) = <<"phone">>

\* C3: addToCurrentCallsheet(entry) makes the stored list of the current week's
\* identifier its previous contents followed by entry (one element when the
\* week had no list), persisted in the callsheets mapping, and leaves the list
\* of every other week identifier as it was.
C3_AddAppendsToCurrentWeek ==
    [][(call'.op = "addToCurrentCallsheet" /\ ~ClockStep) =>
        LET weekId == getWeekIdentifier(now)
            old    == StoredCallsheets(storage)
            new    == StoredCallsheets(storage')
        IN  /\ storage'["callsheets"] # NoItem
            /\ DOMAIN new = DOMAIN old \cup {weekId}
            /\ new[weekId] = StoredWeek(storage, weekId) \o <<call'.entry>>
            /\ \A other \in DOMAIN old \ {weekId} : new[other] = old[other]
    ]_vars

\* C3's case: an entry was appended to a week that had one, with another week stored.
C3_Witness ==
    /\ call.op = "addToCurrentCallsheet"
    /\ StoredWeek(storage, getWeekIdentifier(now)) = <<"visit", call.entry>>
    /\ \E other \in DOMAIN StoredCallsheets(storage) :
          other # getWeekIdentifier(now) /\ StoredCallsheets(storage)[other] # <<>>

-----------------------------------------------------------------------------
(* Week identifiers.                                                        *)

\* ^\d{4}-W\d{2}$
IsWeekIdentifierForm(s) ==
    /\ Len(s) = 8
    /\ \A i \in {1, 2, 3, 4, 7, 8} : IsDigit(s[i])
    /\ s[5] = "-" /\ s[6] = "W"

\* ISO-8601: 1 for Monday .. 7 for Sunday.
IsoWeekday(n) == ((n + 3) % 7) + 1
\* The seven days of n's Monday-to-Sunday week.
WeekSpan(n) == (n - IsoWeekday(n) + 1) .. (n - IsoWeekday(n) + 7)
\* ISO-8601: the Thursday of n's week, whose year is the week-numbering year.
IsoThursday(n) == n - IsoWeekday(n) + 4
IsoYear(n) == CivilFromDays(IsoThursday(n)).y
IsoWeek(n) == ((IsoThursday(n) - DaysFromCivil(IsoYear(n), 1, 1)) \div 7) + 1
IsoWeekIdentifier(n) ==
    NatToString(IsoYear(n)) \o <<"-", "W">>
        \o (IF IsoWeek(n) < 10 THEN <<"0">> ELSE <<>>) \o NatToString(IsoWeek(n))

HasFourDigitYear(n) == CivilFromDays(n).y \in 1000..9999

\* C4: for every date d of a four-digit year, getWeekIdentifier(d) is four
\* digits, "-W" and two digits, and is the same for the seven days of d's
\* Monday-to-Sunday week.
C4_FormAndStableOverWeek ==
    (dateRet # NotCalled /\ HasFourDigitYear(dateArg)) =>
        /\ IsWeekIdentifierForm(dateRet)
        /\ \A e \in WeekSpan(dateArg) : getWeekIdentifier(e) = dateRet

\* C5: for every date d, getWeekIdentifier(d) is the ISO-8601 year-week of d: its
\* year part is the year of the Thursday of d's week.
C5_IsIsoYearWeek ==
    dateRet # NotCalled => dateRet = IsoWeekIdentifier(dateArg)

\* C6: getWeekIdentifier of 1 January 2024 is "2024-W01" and getWeekIdentifier
\* of 1 January 2023 is "2022-W52".
C6_NewYearExamples ==
    /\ (dateRet # NotCalled /\ dateArg = DaysFromCivil(2024, 1, 1))
          => dateRet = <<"2", "0", "2", "4", "-", "W", "0", "1">>
    /\ (dateRet # NotCalled /\ dateArg = DaysFromCivil(2023, 1, 1))
          => dateRet = <<"2", "0", "2", "2", "-", "W", "5", "2">>

\* C25: a saveCallsheetForWeek(weekId, entries) that returns true makes
\* getCallsheetForWeek(weekId) equal to entries, whatever the week's list was,
\* and leaves getCallsheetForWeek(w) as it was for every other week w.
C25_SaveReplacesOneWeek ==
    [][(call'.op = "saveCallsheetForWeek" /\ call'.ret) =>
          /\ getCallsheetForWeek(storage', call'.weekId, FALSE) = call'.entries
          /\ \A w \in WeekIds \ {call'.weekId} :
                getCallsheetForWeek(storage', w, FALSE)
                   = getCallsheetForWeek(storage, w, FALSE)]_vars

\* A week's list of two entries was replaced by a list of one, and the other
\* week has its list.
C25_Witness ==
    /\ call.op = "saveCallsheetForWeek" /\ call.ret
    /\ call.entries = <<"phone">> /\ call.before = <<"visit", "visit">>
    /\ getCallsheetForWeek(storage, call.weekId, FALSE) = <<"phone">>
    /\ \E w \in WeekIds \ {call.weekId} :
          getCallsheetForWeek(storage, w, FALSE) = <<"visit", "visit">>

\* C28: getWeekIdentifier is injective on weeks: a date with the identifier
\* of the date passed lies in the same Monday-to-Sunday week.
C28_InjectiveOnWeeks ==
    dateRet # NotCalled =>
        \A e \in Dates : getWeekIdentifier(e) = dateRet => e \in WeekSpan(dateArg)

\* The identifier of 30 December 2024 was computed, and it is the identifier
\* of 1 January 2024, 52 weeks earlier.
SameIdentifierForTwoWeeks ==
    /\ dateArg = DaysFromCivil(2024, 12, 30) /\ dateRet # NotCalled
    /\ getWeekIdentifier(DaysFromCivil(2024, 1, 1)) = dateRet

\* C6's case: the identifier of Sunday 1 January 2023 was computed.
C6_Witness == dateArg = DaysFromCivil(2023, 1, 1) /\ dateRet # NotCalled

-----------------------------------------------------------------------------
(* normalizeCustomer.                                                       *)

\* C7: normalizeCustomer(normalizeCustomer(c)) equals normalizeCustomer(c) for
\* every customer record c and for null.
C7_NormalizeIdempotent == normPc = "twice" => renormalized = normalized

\* C7's case: a legacy record (no addresses) was normalized twice.
C7_Witness ==
    /\ normPc = "twice"
    /\ custBefore \notin {Null, Undefined}
    /\ "addresses" \notin DOMAIN custBefore
    /\ "street" \in DOMAIN custBefore

\* C8: normalizeCustomer(c) is null for a null or absent c, is c when
\* c.addresses is a non-empty list, and is otherwise c's fields plus addresses
\* holding one address labelled "Primary" with c's street, city, state, zip and
\* country, "" for a missing one; c itself is not modified.
C8_NormalizeResult ==
    normPc # "start" =>
        /\ cust = custBefore
        /\ IF custBefore \in {Null, Undefined} THEN normalized = Null
           ELSE IF "addresses" \in DOMAIN custBefore /\ custBefore["addresses"] # <<>>
           THEN normalized = custBefore
           ELSE /\ DOMAIN normalized = DOMAIN custBefore \cup {"addresses"}
                /\ \A f \in DOMAIN custBefore \ {"addresses"} :
                      normalized[f] = custBefore[f]
                /\ Len(normalized["addresses"]) = 1
                /\ LET a == normalized["addresses"][1]
                   IN  /\ DOMAIN a = {"label"} \cup LegacyFields
                       /\ a["label"] = "Primary"
                       /\ \A f \in LegacyFields :
                             a[f] = IF f \in DOMAIN custBefore THEN custBefore[f] ELSE ""

\* C8's case: a record with an empty addresses list, a city and no street was
\* normalized.
C8_Witness ==
    /\ normPc = "once"
    /\ custBefore \notin {Null, Undefined}
    /\ "addresses" \in DOMAIN custBefore /\ custBefore["addresses"] = <<>>
    /\ "street" \notin DOMAIN custBefore
    /\ "city" \in DOMAIN custBefore /\ custBefore["city"] # ""

-----------------------------------------------------------------------------
(* Product display strings.                                                 *)

\* C9 as claimed: for every product, parsing its display string returns its
\* name and code, the code being "" when the product's code is empty.
C9_RoundTripOfEveryProduct ==
    prodPc = "parsed" =>
        /\ prodParsed = [name |-> prodArg.name, code |-> prodArg.code]
        /\ prodArg.code = <<>> => prodStr = prodArg.name

NoOuterSpace(s) == s = <<>> \/ (~IsSpace(s[1]) /\ ~IsSpace(s[Len(s)]))
HasChar(s, ch) == \E i \in 1..Len(s) : s[i] = ch

\* The products whose display string parses back: name and code without leading
\* or trailing whitespace, no "[" and no line break in the name, no "]" in the
\* code.
PlainProduct(product) ==
    /\ NoOuterSpace(product.name) /\ NoOuterSpace(product.code)
    /\ ~HasChar(product.name, "[")
    /\ \A i \in 1..Len(product.name) : ~IsLineTerminator(product.name[i])
    /\ ~HasChar(product.code, "]")

\* C9, amended: for every product whose name and code have no leading or
\* trailing whitespace, whose name holds no "[" and no line break and whose code
\* holds no "]", parsing its display string returns its name and code, the
\* code being "" when the product's code is empty (the display string is then
\* just the name).
C9_RoundTripOfPlainProducts ==
    (prodPc = "parsed" /\ PlainProduct(prodArg)) =>
        /\ prodParsed = [name |-> prodArg.name, code |-> prodArg.code]
        /\ prodArg.code = <<>> => prodStr = prodArg.name

\* C9's case: a plain product with a name and a code was formatted and parsed.
C9_Witness ==
    /\ prodPc = "parsed" /\ PlainProduct(prodArg)
    /\ prodArg.name = <<"a", "]">> /\ prodArg.code = <<"[", "a">>
    /\ prodParsed = prodArg

-----------------------------------------------------------------------------
(* searchProducts.                                                          *)

SameLetter(x, y) == x = y \/ {x, y} = {"a", "A"} \/ {x, y} = {"b", "B"}

\* s contains q as a substring when case is ignored.
ContainsIgnoringCase(s, q) ==
    \E off \in 0..(Len(s) - Len(q)) : \A j \in 1..Len(q) : SameLetter(s[off + j], q[j])

\* The k-th smallest element of a set of numbers.
KthSmallest(S, k) == CHOOSE i \in S : Cardinality({j \in S : j < i}) = k - 1

\* C10: searchProducts(query) returns the empty list for an empty query, and for
\* a non-empty query the products of the catalog, in catalog order, whose name
\* or code contains the query when case is ignored.
C10_SearchProducts ==
    call.op = "searchProducts" =>
        LET catalog == StoredCatalog(storage)
            q       == call.query
            hits    == {i \in 1..Len(catalog) :
                          \/ ContainsIgnoringCase(catalog[i].name, q)
                          \/ ContainsIgnoringCase(catalog[i].code, q)}
        IN  IF q = <<>> THEN call.ret = <<>>
            ELSE /\ Len(call.ret) = Cardinality(hits)
                 /\ \A k \in 1..Len(call.ret) : call.ret[k] = catalog[KthSmallest(hits, k)]

\* C10's case: a query with a capital letter found the second product of the
\* catalog by its code and not the first.
C10_Witness ==
    /\ call.op = "searchProducts" /\ call.query = <<"A", "1">>
    /\ Len(StoredCatalog(storage)) = 2
    /\ call.ret = <<StoredCatalog(storage)[2]>>

-----------------------------------------------------------------------------
(* getProductByCode, getProductByName.                                      *)

\* The positions of the catalog whose field f is exactly arg.
ExactAt(catalog, f, arg) == {i \in 1..Len(catalog) : catalog[i][f] = arg}

\* C11: getProductByCode(code) and getProductByName(name) return the first
\* product of the stored catalog whose code (name) equals the argument, return
\* null when the argument is empty or no product has it, and leave the stored
\* catalog as it was.
C11_ExactProductLookup ==
    [][call'.op \in {"getProductByCode", "getProductByName"} =>
        LET catalog == StoredCatalog(storage)
            f       == IF call'.op = "getProductByCode" THEN "code" ELSE "name"
            at      == ExactAt(catalog, f, call'.arg)
        IN  /\ storage' = storage
            /\ ~call'.threw
            /\ IF call'.arg = <<>> \/ at = {}
               THEN call'.ret = Null
               ELSE \E i \in at : /\ \A k \in at : i <= k
                                  /\ call'.ret = catalog[i]
    ]_vars

\* C11's case: two products of the catalog have the code looked up, and the
\* first of them was returned.
C11_Witness ==
    /\ call.op = "getProductByCode" /\ call.arg = <<"b">>
    /\ Len(StoredCatalog(storage)) = 2
    /\ StoredCatalog(storage)[1].code = <<"b">>
    /\ StoredCatalog(storage)[2].code = <<"b">>
    /\ StoredCatalog(storage)[1] # StoredCatalog(storage)[2]
    /\ call.ret = StoredCatalog(storage)[1]

-----------------------------------------------------------------------------
(* getCustomerByName.                                                       *)

\* n is the normalized form of the customer record c: c itself when c has a
\* non-empty addresses list, otherwise c's fields with one "Primary" address
\* made of c's legacy fields.
IsNormalFormOf(n, c) ==
    IF "addresses" \in DOMAIN c /\ c["addresses"] # <<>> THEN n = c
    ELSE /\ DOMAIN n = DOMAIN c \cup {"addresses"}
         /\ \A f \in DOMAIN c \ {"addresses"} : n[f] = c[f]
         /\ n["addresses"] =
               <<[f \in {"label"} \cup LegacyFields |->
                    IF f = "label" THEN "Primary"
                    ELSE IF f \in DOMAIN c THEN c[f] ELSE ""]>>

\* C12: getCustomerByName(name) returns the normalized form, with at least one
\* address, of the first stored customer whose name is exactly name, null when
\* no stored customer has that name, and leaves the stored list as it was.
C12_CustomerLookup ==
    [][call'.op = "getCustomerByName" =>
        LET customers == StoredCustomers(storage)
            at        == {i \in 1..Len(customers) : customers[i]["name"] = call'.arg}
        IN  /\ storage' = storage
            /\ ~call'.threw
            /\ IF at = {} THEN call'.ret = Null
               ELSE \E i \in at :
                       /\ \A k \in at : i <= k
                       /\ IsNormalFormOf(call'.ret, customers[i])
                       /\ Len(call'.ret["addresses"]) >= 1
    ]_vars

\* C12's case: the store holds "acme" before "Acme", the latter with an empty
\* addresses list; the lookup of "Acme" returned it with a Primary address, and
\* the stored record still has none.
C12_Witness ==
    /\ call.op = "getCustomerByName" /\ call.arg = "Acme"
    /\ Len(StoredCustomers(storage)) = 2
    /\ StoredCustomers(storage)[1]["name"] = "acme"
    /\ StoredCustomers(storage)[2]["name"] = "Acme"
    /\ "addresses" \in DOMAIN StoredCustomers(storage)[2]
    /\ StoredCustomers(storage)[2]["addresses"] = <<>>
    /\ call.ret # Null
    /\ call.ret["addresses"][1]["label"] = "Primary"
    /\ call.ret["addresses"][1]["zip"] = "YO1"

-----------------------------------------------------------------------------
(* Storage errors.                                                          *)

ReadOps == {"getLocalStorage", "loadCustomers"}
WriteOps == {"setLocalStorage", "removeLocalStorage", "saveCustomer",
             "saveCallsheetForWeek", "addToCurrentCallsheet", "removeCallsheetEntry"}

\* The key whose stored text the call c parses, if it parses any.
ParsedKey(c) ==
    CASE c.op = "getLocalStorage" -> {c.key}
      [] c.op \in {"loadCustomers", "saveCustomer"} -> {"customerDatabase"}
      [] c.op \in {"saveCallsheetForWeek", "addToCurrentCallsheet",
                   "removeCallsheetEntry"} -> {"callsheets"}
      [] OTHER -> {}

\* The call c met an error of the store: the store raised, or the text the
\* call had to parse was not JSON.
MetStorageError(c, store) ==
    c.raised \/ \E k \in ParsedKey(c) : store[k] = Unparsable

\* What a read yields when nothing is read: the default value passed, the empty
\* list for the selector's load.
DefaultOf(c) == IF c.op = "getLocalStorage" THEN c.defaultValue ELSE <<>>

\* C13: no storage-backed operation throws when the store raises an error or
\* holds unparsable data: a read then yields the default value, a write
\* returns false, and the stored data is left as it was.
C13_StorageErrorsNeverThrown ==
    [][(call'.op \in ReadOps \cup WriteOps /\ MetStorageError(call', storage)) =>
        /\ ~call'.threw
        /\ storage' = storage
        /\ call'.op \in ReadOps => call'.ret = DefaultOf(call')
        /\ call'.op \in WriteOps => call'.ret = FALSE
    ]_vars

\* The part of C13 that holds: the three accessors never throw; on an error
\* getLocalStorage yields the default value, setLocalStorage and
\* removeLocalStorage return false, and the store is left as it was.
AccessorsCatchStorageErrors ==
    [][(call'.op \in {"getLocalStorage", "setLocalStorage", "removeLocalStorage"}
          /\ MetStorageError(call', storage)) =>
        /\ ~call'.threw
        /\ storage' = storage
        /\ call'.op = "getLocalStorage" => call'.ret = call'.defaultValue
        /\ call'.op # "getLocalStorage" => call'.ret = FALSE
    ]_vars

\* No operation built on the accessors throws either.
CallsheetOperationsNeverThrow ==
    [][call'.op \in {"saveCallsheetForWeek", "addToCurrentCallsheet",
                     "removeCallsheetEntry"} => ~call'.threw]_vars

\* saveCustomer was called while the store raised, and threw.
SaveCustomerThrew ==
    call.op = "saveCustomer" /\ call.raised /\ call.threw

\* The selector's load met unparsable text, and threw.
LoadCustomersThrew ==
    call.op = "loadCustomers" /\ ~call.raised /\ call.threw

-----------------------------------------------------------------------------
(* formatAddressDisplay.                                                    *)

\* The value of a part: "" when the address has no such property.
PartOf(address, f) == IF f \in DOMAIN address THEN address[f] ELSE <<>>

\* x and y with ", " between them, or the one of them that is not empty.
CommaJoined(x, y) ==
    IF x = <<>> THEN y ELSE IF y = <<>> THEN x ELSE x \o <<",", " ">> \o y

\* C20: formatAddressDisplay(address) is the non-empty values among street,
\* city and zip, in that order, with ", " between them, and is "Address not
\* specified" exactly when all three are empty.
C20_FormatAddressDisplay ==
    addressText # NotCalled =>
        LET street == PartOf(addressArg, "street")
            city   == PartOf(addressArg, "city")
            zip    == PartOf(addressArg, "zip")
        IN  /\ (addressText = AddressNotSpecified)
                   <=> (street = <<>> /\ city = <<>> /\ zip = <<>>)
            /\ addressText # AddressNotSpecified =>
                   addressText = CommaJoined(street, CommaJoined(city, zip))

\* C20's case: an address with a street and a zip and an empty city was
\* formatted.
C20_Witness ==
    /\ addressText = <<"a", ",", " ", "a", "a">>
    /\ addressArg = [street |-> <<"a">>, city |-> <<>>, zip |-> <<"a", "a">>]

-----------------------------------------------------------------------------
(* The search inputs.                                                       *)

\* The step is the end of a lookup that failed: the request was rejected, the
\* response was not OK, or its body could not be parsed.
LookupFailed == uiEvent'.type = "response" /\ uiEvent'.outcome \in Failures

\* C14: when a customer or product lookup fails, the input ends with no
\* dropdown: a dropdown shown for the input before the failed lookup is
\* removed.
C14_FailedLookupLeavesNoDropdown ==
    [][LookupFailed => dropdowns'[uiEvent'.inp] = <<>>]_vars

\* A failed lookup of part_002 has left the dropdown of an earlier lookup
\* under the input.
DropdownOutlivesFailedLookup ==
    /\ variant = "part_002"
    /\ uiEvent.type = "response" /\ uiEvent.outcome \in Failures
    /\ dropdowns[uiEvent.inp] # <<>>

\* The lookups a step issues.
NewLookups == inflight' \ inflight

\* The step is the firing of the search timer of inp.
SearchTimerFired(inp) ==
    /\ uiEvent'.type = "timer" /\ uiEvent'.kind = "search"
    /\ uiEvent'.inp = inp

\* C15: for one search input, a burst of keystrokes each leaving at least 2
\* characters, each arriving before the timer of the one before has fired,
\* issues exactly one lookup, 300 ms after the last keystroke and for the
\* value the listener took at the last keystroke; and at most one search
\* timer is pending for the input at every moment. While no lookup has been
\* issued for the last keystroke its timer is pending, due 300 ms after the
\* keystroke; when the timer fires it issues the one lookup.
C15_DebouncedLookup ==
    /\ [](\A inp \in SearchInputs :
            /\ Cardinality(SearchTimersOf(inp)) <= 1
            /\ ~lastInput[inp].disturbed /\ lastInput[inp].qualifies =>
                  /\ lastInput[inp].lookups <= 1
                  /\ lastInput[inp].lookups = 0 =>
                        /\ lastInput[inp].age <= SearchDelay
                        /\ \E t \in SearchTimersOf(inp) :
                              /\ t.value = lastInput[inp].value
                              /\ t.left = SearchDelay - lastInput[inp].age)
    /\ [][\A inp \in SearchInputs :
            SearchTimerFired(inp) /\ ~lastInput[inp].disturbed =>
               /\ lastInput[inp].qualifies
               /\ lastInput[inp].age = SearchDelay
               /\ lastInput[inp].lookups = 0 /\ lastInput'[inp].lookups = 1
               /\ \E r \in NewLookups :
                     /\ NewLookups = {r}
                     /\ r.inp = inp /\ r.query = lastInput[inp].value]_vars

\* A burst of two keystrokes on an input has issued its one
\* lookup, and nothing else has.
C15_Witness ==
    /\ uiEvent.type = "timer" /\ uiEvent.kind = "search"
    /\ lastInput[uiEvent.inp].burst = 2
    /\ lastInput[uiEvent.inp].lookups = 1
    /\ issued = 1 /\ Cardinality(inflight) = 1
    /\ \A r \in inflight : r.query = <<"b", "c">>

\* The step is a keystroke that leaves fewer than 2 trimmed characters in the
\* customer search input inp.
ShortCustomerKeystroke(inp) ==
    /\ uiEvent'.type = "input" /\ uiEvent'.inp = inp
    /\ Len(trim(fields'[inp])) < MinQueryLength

\* The fields that depend on a customer search input.
DependentFields(inp) ==
    IF inp = "account" THEN {"name", "address"} ELSE {"account", "address"}

\* C16: a keystroke that leaves fewer than 2 trimmed characters in a customer
\* search input leaves no search timer pending for the input, no dropdown
\* under it, its dependent fields empty and no customer selected.
C16_ShortKeystrokeResets ==
    [][\A inp \in CustomerSearchInputs :
          ShortCustomerKeystroke(inp) =>
             /\ {t \in timers' : t.kind = "search" /\ t.inp = inp} = {}
             /\ dropdowns'[inp] = <<>>
             /\ \A f \in DependentFields(inp) : fields'[f] = <<>>
             /\ currentSelectedCustomer' = Null]_vars

\* In part_002 a keystroke has left a character and a space in a customer
\* input and a search timer is pending for it.
TimerPendingForBlankPaddedValue ==
    /\ variant = "part_002"
    /\ uiEvent.type = "input" /\ uiEvent.inp \in CustomerSearchInputs
    /\ fields[uiEvent.inp] = <<"a", " ">>
    /\ SearchTimersOf(uiEvent.inp) # {}

\* In part_002 a keystroke has left one character in a customer input, and
\* the fields filled by an earlier selection are as they were.
FieldsKeptAfterShortKeystroke ==
    /\ variant = "part_002"
    /\ uiEvent.type = "input" /\ uiEvent.inp = "account"
    /\ fields["account"] = <<"a">>
    /\ fields["name"] # <<>> /\ fields["address"] # <<>>

\* The step is the end of a lookup that succeeded.
LookupSucceeded == uiEvent'.type = "response" /\ uiEvent'.outcome.kind = "ok"

\* C17: when a lookup succeeds with at least one result, the input shows
\* exactly one dropdown, listing the returned results in order, whatever was
\* shown before; when it succeeds with no result, the input shows no dropdown.
C17_SuccessfulLookupShowsResults ==
    [][LookupSucceeded =>
          dropdowns'[uiEvent'.inp] =
             IF uiEvent'.outcome.body = <<>> THEN <<>>
             ELSE <<uiEvent'.outcome.body>>]_vars

\* A lookup has succeeded with two customers while the input showed the
\* dropdown of an earlier lookup, and the input shows the two customers.
C17_Witness ==
    /\ variant = "part_000"
    /\ uiEvent.type = "response" /\ uiEvent.before = 1
    /\ uiEvent.outcome = Ok(<<Bolt, Acme>>)
    /\ dropdowns[uiEvent.inp] = <<<<Bolt, Acme>>>>

\* C18: issuing a lookup leaves the older lookups in flight, and every
\* response is applied as it arrives, whatever the order of the requests: a
\* response takes only its own lookup out of flight, and after a successful
\* response with results the dropdown shown last under the input lists those
\* results, so that of two lookups of an input the one answered last is the
\* one shown, also when it is the older.
C18_ResponsesAppliedInArrivalOrder ==
    [][/\ NewLookups # {} => inflight \subseteq inflight'
       /\ uiEvent'.type = "response" =>
             /\ \E r \in inflight :
                   /\ r.n = uiEvent'.n /\ r.inp = uiEvent'.inp
                   /\ inflight' = inflight \ {r}
             /\ uiEvent'.outcome.kind = "ok" /\ uiEvent'.outcome.body # <<>> =>
                   /\ dropdowns'[uiEvent'.inp] # <<>>
                   /\ dropdowns'[uiEvent'.inp][Len(dropdowns'[uiEvent'.inp])]
                         = uiEvent'.outcome.body]_vars

\* Two lookups were issued for the name input; the second was answered first
\* and its dropdown was shown; then the first was answered with Acme, and the
\* input lists Acme.
C18_Witness ==
    /\ issued = 2 /\ inflight = {}
    /\ \A j \in SearchInputs \ {"name"} : lastInput[j].value = <<>>
    /\ uiEvent.type = "response" /\ uiEvent.inp = "name" /\ uiEvent.n = 1
    /\ uiEvent.before = 1
    /\ uiEvent.outcome = Ok(<<Acme>>)
    /\ dropdowns["name"] = <<<<Acme>>>>

\* part_000 639-641: getSelectedCustomer()
getSelectedCustomer == currentSelectedCustomer

\* The step is the selection of an entry of the dropdown of a customer input.
CustomerSelected ==
    uiEvent'.type = "select" /\ uiEvent'.inp \in CustomerSearchInputs

\* The step is a keystroke that leaves fewer than 2 trimmed characters in a
\* customer search input.
ShortKeystroke == \E inp \in CustomerSearchInputs : ShortCustomerKeystroke(inp)

\* A selection leaves no dropdown under the input it was made from.
SelectionRemovesDropdown ==
    [][CustomerSelected => dropdowns'[uiEvent'.inp] = <<>>]_vars

\* C19: selecting an entry of a customer dropdown sets the account and name
\* fields to the customer's account_number and name, calls onSelect once with
\* the customer, removes the dropdown, and makes getSelectedCustomer() return
\* the customer, which it does until another selection or a keystroke that
\* leaves fewer than 2 characters.
C19_SelectCustomer ==
    [][/\ CustomerSelected =>
             /\ fields'["account"] = uiEvent'.item.account_number
             /\ fields'["name"] = uiEvent'.item.name
             /\ onSelectCalls' = Append(onSelectCalls, uiEvent'.item)
             /\ dropdowns'[uiEvent'.inp] = <<>>
             /\ getSelectedCustomer' = uiEvent'.item
       /\ getSelectedCustomer # Null /\ getSelectedCustomer' # getSelectedCustomer =>
             CustomerSelected \/ ShortKeystroke]_vars

\* In part_002, with the product row before the customer inputs, a customer
\* was selected and the dropdown it was selected from is still shown.
DropdownOutlivesSelection ==
    /\ variant = "part_002"
    /\ uiEvent.type = "select" /\ uiEvent.inp \in CustomerSearchInputs
    /\ dropdowns[uiEvent.inp] # <<>>

\* In part_000 a customer is selected and its dropdown is gone.
SelectedInPart000 ==
    /\ variant = "part_000"
    /\ uiEvent.type = "select" /\ uiEvent.inp \in CustomerSearchInputs
    /\ getSelectedCustomer = Bolt /\ onSelectCalls = <<Bolt>>
    /\ dropdowns[uiEvent.inp] = <<>>

\* The step is a keystroke on the search input inp.
KeystrokeOn(inp) == uiEvent'.type = "input" /\ uiEvent'.inp = inp

\* C26: a keystroke on one search input cancels no pending search timer of
\* another search input.
C26_DebouncePerInput ==
    [][\A inp \in SearchInputs : \A other \in SearchInputs \ {inp} :
          KeystrokeOn(other) => SearchTimersOf(inp) \subseteq timers']_vars

\* In part_000 a qualifying keystroke on the account input was followed by one
\* on the name input, and no timer is pending for the account input, for which
\* no lookup was issued.
TimerOfOtherInputCancelled ==
    /\ variant = "part_000"
    /\ uiEvent.type = "input" /\ uiEvent.inp = "name"
    /\ lastInput["account"].qualifies /\ lastInput["account"].lookups = 0
    /\ lastInput["account"].age < SearchDelay
    /\ SearchTimersOf("account") = {}

\* The controller of inp is idle: the latest keystroke on the input left fewer
\* than 2 characters, or an entry of its dropdown was selected since.
Idle(inp) == ~lastInput[inp].qualifies \/ lastInput[inp].selected

\* C27: while the controller of an input is idle, after a short keystroke or
\* a selection and before the next keystroke that leaves at least 2
\* characters, no dropdown is shown under the input.
C27_NoDropdownWhileIdle ==
    \A inp \in SearchInputs : Idle(inp) => dropdowns[inp] = <<>>

\* In part_000 the answer to a lookup in flight has shown a dropdown under an
\* input whose latest keystroke left fewer than 2 characters.
DropdownAfterShortKeystroke ==
    /\ variant = "part_000"
    /\ uiEvent.type = "response"
    /\ ~lastInput[uiEvent.inp].qualifies
    /\ dropdowns[uiEvent.inp] # <<>>

\* In part_000 the answer to a lookup issued by a timer that was pending at a
\* selection has shown a dropdown under the input.
DropdownAfterSelection ==
    /\ variant = "part_000"
    /\ uiEvent.type = "response"
    /\ lastInput[uiEvent.inp].selected
    /\ dropdowns[uiEvent.inp] # <<>>

-----------------------------------------------------------------------------
(* Two writers of the customer store.                                       *)

\* The names of the customers stored, and of those in a text read.
StoredNames == {StoredCustomers(storage)[i]["name"] : i \in 1..Len(StoredCustomers(storage))}
NamesIn(data) ==
    IF data = NoItem THEN {}
    ELSE {JSONParse(data)[i]["name"] : i \in 1..Len(JSONParse(data))}

\* Writer a wrote between the read and the write of writer b, and both saved.
WroteBetween(a, b) ==
    /\ writer[a].pc = "done" /\ writer[b].pc = "done"
    /\ writer[a].ret /\ writer[b].ret
    /\ writer[b].readAt < writer[a].wroteAt
    /\ writer[a].wroteAt < writer[b].wroteAt

\* C24: saveCustomer reads, modifies and writes the whole list with nothing
\* to keep two writers apart: when a writer writes between the read and the
\* write of another that saves a customer of another name, both saves return
\* true and the store holds the second writer's customer and not the first's,
\* unless the first's name was stored before. (Writers that do not overlap
\* both leave their customers.)
C24_LostUpdate ==
    \A a \in Writers : \A b \in Writers \ {a} :
        /\ (WroteBetween(a, b)
              /\ writer[a].customer["name"] # writer[b].customer["name"]
              /\ writer[a].customer["name"] \notin NamesIn(writer[b].data))
              => /\ writer[b].customer["name"] \in StoredNames
                 /\ writer[a].customer["name"] \notin StoredNames
        /\ (writer[a].pc = "done" /\ writer[b].pc = "done"
              /\ writer[a].wroteAt < writer[b].readAt)
              => {writer[a].customer["name"], writer[b].customer["name"]}
                     \subseteq StoredNames

\* Both writers saved customers of different names, both saves returned
\* true, and the store holds only one of the two customers.
C24_Witness ==
    /\ \A w \in Writers : writer[w].pc = "done" /\ writer[w].ret
    /\ writer[1].customer["name"] = "Acme" /\ writer[2].customer["name"] = "Bolt"
    /\ "Bolt" \in StoredNames /\ "Acme" \notin StoredNames

-----------------------------------------------------------------------------
(* validateForm.                                                            *)

\* The fields of the form that have the id.
FieldsWithId(form, fieldId) ==
    {i \in 1..Len(form.fields) : form.fields[i].id = fieldId}

\* The entry of an id: none when its field is there with a value that is not
\* blank.
RECURSIVE EntriesFrom(_, _, _)
EntriesFrom(form, ids, k) ==
    IF k > Len(ids) THEN <<>>
    ELSE LET present == FieldsWithId(form, ids[k])
             labels  == LabelsMatching(form, ids[k])
             entry   ==
                IF present = {} THEN <<FieldNotFound(ids[k])>>
                ELSE IF trim(form.fields[First(present)].value) = <<>>
                THEN <<IsRequired(IF labels # {}
                                  THEN form.labels[First(labels)].textContent
                                  ELSE ids[k])>>
                ELSE <<>>
         IN  entry \o EntriesFrom(form, ids, k + 1)

ValidateFormAsClaimed ==
    /\ ~validateCall.result.threw
    /\ validateCall.result.ret.errors
          = EntriesFrom(validateCall.form, validateCall.requiredFields, 1)
    /\ validateCall.result.ret.isValid = (validateCall.result.ret.errors = <<>>)
    /\ validateCall.result.form = validateCall.form

\* C23: validateForm(form, requiredFieldIds) returns, in the order of the ids,
\* one entry for each id whose field is absent ("Field <id> not found") or
\* whose value is empty or blank ("<label text, else id> is required") and no
\* other entry; isValid is true exactly when there is no entry; the form is
\* not modified.
C23_ValidateForm == validateCall # NoValidation => ValidateFormAsClaimed

\* The same for required ids that are identifiers.
ValidateFormOfIdentifiers ==
    (validateCall # NoValidation
       /\ \A k \in 1..Len(validateCall.requiredFields) :
             IsIdentifier(validateCall.requiredFields[k]))
      => ValidateFormAsClaimed

\* The field with the id a.b is in the form with a value, and validateForm
\* reports it as not found.
PresentFieldReportedNotFound ==
    /\ validateCall # NoValidation
    /\ validateCall.requiredFields = <<<<"a", ".", "b">>>>
    /\ validateCall.form.fields
          = <<[id |-> <<"a", ".", "b">>, classes |-> {}, value |-> <<"a">>]>>
    /\ validateCall.result.ret.errors = <<FieldNotFound(<<"a", ".", "b">>)>>

\* An absent field and a blank field with a label were reported, in order.
ValidatedWithBothKindsOfError ==
    /\ validateCall # NoValidation
    /\ validateCall.requiredFields = <<<<"b">>, <<"a">>>>
    /\ ~validateCall.result.ret.isValid
    /\ validateCall.result.ret.errors = <<FieldNotFound(<<"b">>), IsRequired(<<"A">>)>>

\* C21: when the option of an existing address i is chosen, the address
\* display field becomes the formatted address i and the form has one hidden
\* address_label field holding the label of address i, created when the form
\* had none; when the empty option is chosen, address_label is the empty string.
C21_ChooseExistingAddress ==
    [][selEvent'.type = "change" =>
          /\ selEvent'.value = NoOption => hidden'["address_label"] = <<<<>>>>
          /\ \A i \in 1..Len(selector.addresses) :
                selEvent'.value = IndexOptions[i] =>
                    /\ addressInput' = formatAddressDisplay(selector.addresses[i])
                    /\ hidden'["address_label"] = <<selector.addresses[i].label>>]_vars

\* The second address of a customer was chosen in a form that had no
\* address_label field.
C21_Witness ==
    /\ selEvent.type = "change" /\ selEvent.value = IndexOptions[2]
    /\ selEvent.labelFields = 0
    /\ selector.addresses = Bolt.addresses
    /\ hidden["address_label"] = <<Bolt.addresses[2].label>>
    /\ addressInput = formatAddressDisplay(Bolt.addresses[2])

\* C22: a click on Save New Address with a location name that is not empty
\* once trimmed leaves the form with exactly one hidden field of each of the
\* six names, address_label holding __NEW__ and the new_address_ fields the
\* trimmed values entered, whatever hidden fields an earlier save left; it
\* issues no request and writes nothing to the store. With an empty location
\* name the click changes no field.
C22_SaveNewAddress ==
    [][selEvent'.type = "save" =>
          /\ inflight' = inflight /\ issued' = issued /\ storage' = storage
          /\ IF trim(selEvent'.entered.label) # <<>>
             THEN /\ hidden'["address_label"] = <<NewFlag>>
                  /\ hidden'["new_address_label"] = <<trim(selEvent'.entered.label)>>
                  /\ hidden'["new_address_street"] = <<trim(selEvent'.entered.street)>>
                  /\ hidden'["new_address_city"] = <<trim(selEvent'.entered.city)>>
                  /\ hidden'["new_address_zip"] = <<trim(selEvent'.entered.zip)>>
                  /\ hidden'["new_address_phone"] = <<trim(selEvent'.entered.phone)>>
             ELSE /\ hidden' = hidden /\ addressInput' = addressInput
                  /\ selector' = selector]_vars

\* A second new address, entered with blanks around its values, was saved over
\* the hidden fields of a first.
C22_Witness ==
    /\ selEvent.type = "save"
    /\ selEvent.entered.label = <<" ", "N">> /\ selEvent.entered.street = <<"s", " ">>
    /\ selEvent.before["new_address_label"] = <<<<"O">>>>
    /\ selEvent.before["address_label"] = <<NewAddressFlag>>
    /\ hidden["new_address_label"] = <<<<"N">>>>
    /\ hidden["new_address_street"] = <<<<"s">>>>
    /\ hidden["address_label"] = <<NewFlag>>

\* Save New Address was clicked with a blank location name.
SavedWithBlankName ==
    /\ selEvent.type = "save" /\ selEvent.entered.label = <<" ">>
    /\ selector.newFormShown

\* C29: after the new-address option was chosen, a location name entered and
\* Save New Address clicked, getSelectedAddress(container) returns the entered
\* address (trimmed label, street, city, zip and phone) with isNew = TRUE.
C29_GetSavedNewAddress ==
    [][(/\ selEvent.type = "save" /\ trim(selEvent.entered.label) # <<>>
        /\ selEvent'.type = "get")
       => selEvent'.ret = [label |-> trim(selEvent.entered.label),
                           street |-> trim(selEvent.entered.street),
                           city |-> trim(selEvent.entered.city),
                           zip |-> trim(selEvent.entered.zip),
                           phone |-> trim(selEvent.entered.phone),
                           isNew |-> TRUE]]_vars

\* getSelectedAddress returned null while the form carries a saved new address
\* and the select is on the new-address option.
NullForSavedNewAddress ==
    /\ selEvent.type = "get" /\ selEvent.ret = Null
    /\ selector.rendered /\ selector.value = NewOption
    /\ ~selector.newFormShown
    /\ hidden["address_label"] = <<NewFlag>>
    /\ hidden["new_address_label"] = <<<<"O">>>>

\* C30: in every reachable state with a rendered selector the hidden
\* address_label field agrees with the chosen option: it is empty when no
\* option is chosen, and it is the label of the chosen address when an
\* existing address is chosen.
C30_LabelAgreesWithOption ==
    selector.rendered =>
        /\ selector.value = NoOption => AddressLabelValue(hidden) = <<>>
        /\ \A i \in 1..Len(selector.addresses) :
              selector.value = IndexOptions[i] =>
                  AddressLabelValue(hidden) = selector.addresses[i].label

\* Another customer was selected after an address of the first was chosen: the
\* new selector has no option chosen and address_label keeps the old label.
StaleLabelAfterRender ==
    /\ selEvent.type = "render" /\ selEvent.customer = Acme
    /\ selector.value = NoOption
    /\ hidden["address_label"] = <<Bolt.addresses[1].label>>

\* The same after the Refresh button of part_000.
StaleLabelAfterRefresh ==
    /\ selEvent.type = "refresh" /\ selVariant = "part_000"
    /\ selector.value = NoOption
    /\ hidden["address_label"] = <<Bolt.addresses[2].label>>

\* C31: the form holds hidden new_address_ fields only while the new address
\* is the staged one: once an existing address or the empty option is chosen,
\* or another customer selected, no new_address_ field is left in the form.
C31_NewAddressFieldsOnlyWhileNew ==
    (selector.rendered /\ selector.value # NewOption) =>
        \A n \in HiddenNames \ {"address_label"} : hidden[n] = <<>>

\* An existing address was chosen after a new address was saved, and the form
\* still carries the new address.
NewAddressFieldsWithExistingAddress ==
    /\ selEvent.type = "change" /\ selEvent.value = IndexOptions[1]
    /\ selector.addresses = Bolt.addresses
    /\ hidden["address_label"] = <<Bolt.addresses[1].label>>
    /\ hidden["new_address_label"] = <<<<"O">>>>
    /\ hidden["new_address_zip"] = <<<<"z">>>>

\* Another customer was selected after a new address was saved for the first.
NewAddressFieldsOfAnotherCustomer ==
    /\ selEvent.type = "render" /\ selEvent.customer = Acme
    /\ selector.value = NoOption
    /\ hidden["address_label"] = <<NewFlag>>
    /\ hidden["new_address_label"] = <<<<"N">>>>

\* C37: a form that starts with at most one field named address_label has at
\* most one after any sequence of address selections and Save New Address
\* clicks.
C37_OneAddressLabelField ==
    Len(hidden["address_label"]) <= 1

\* An address was chosen after a save replaced the address_label field of the
\* form by one without id.
C37_Witness ==
    /\ selEvent.type = "change" /\ selEvent.value = IndexOptions[2]
    /\ selEvent.labelFields = 1
    /\ hidden["new_address_label"] # <<>>
    /\ hidden["address_label"] = <<Bolt.addresses[2].label>>

\* C32: in every reachable state of the search page, whatever the
\* interleaving of lookups, responses, selections, blur and outside clicks,
\* the container of each search input holds at most one dropdown element.
C32_AtMostOneDropdown ==
    \A inp \in DOMAIN dropdowns : Len(dropdowns[inp]) <= 1

\* The state the page of SpecSearchAnswered_002 starts in is one the page
\* reaches from its load, by one event.
FirstLookupAnsweredAfterOneEvent ==
    FirstLookupAnswered /\ eventCount = 1

\* The account input's container holds two dropdowns: the second account
\* lookup removed the dropdown of the product input, the first of the document.
TwoDropdownsUnderAccount ==
    /\ variant = "part_002" /\ layout[1] = "product"
    /\ Len(dropdowns["account"]) = 2 /\ dropdowns["product"] = <<>>
    /\ uiEvent.type = "response" /\ uiEvent.inp = "account"

\* C34: for every date d, getMondayOfWeek(d) is a Monday, is not later than d
\* and is at most 6 days before d: a Sunday gives the Monday six days earlier,
\* a Monday itself. The argument is not modified.
C34_MondayOfWeek ==
    dateCall.fn = "getMondayOfWeek" =>
        /\ IsoWeekday(dateCall.ret) = 1
        /\ dateCall.ret <= dateArg /\ dateArg - dateCall.ret <= 6
        /\ IsoWeekday(dateArg) = 7 => dateCall.ret = dateArg - 6
        /\ IsoWeekday(dateArg) = 1 => dateCall.ret = dateArg
        /\ dateArg = dateCall.arg

\* Sunday 1 January 2023 gave Monday 26 December 2022.
C34_Witness ==
    /\ dateCall.fn = "getMondayOfWeek"
    /\ dateArg = DaysFromCivil(2023, 1, 1)
    /\ dateCall.ret = DaysFromCivil(2022, 12, 26)

\* C35: for every date d, getWeekNumber(d) is the ISO-8601 week number of d,
\* the week counted from 1 of the Thursday of d's Monday-based week within
\* that Thursday's year; it lies in 1..53 and is the same for the seven days
\* of a Monday-to-Sunday week.
C35_IsoWeekNumber ==
    dateCall.fn = "getWeekNumber" =>
        /\ dateCall.ret = IsoWeek(dateArg)
        /\ dateCall.ret \in 1..53
        /\ \A e \in WeekSpan(dateArg) : getWeekNumber(e) = dateCall.ret

\* Tuesday 31 December 2024 is in week 1, of 2025.
C35_Witness ==
    /\ dateCall.fn = "getWeekNumber"
    /\ dateArg = DaysFromCivil(2024, 12, 31)
    /\ dateCall.ret = 1

\* Thursday 31 December 2026 is in week 53.
WeekFiftyThree ==
    /\ dateCall.fn = "getWeekNumber"
    /\ dateArg = DaysFromCivil(2026, 12, 31)
    /\ dateCall.ret = 53

\* C38: on a store that raises no error, setLocalStorage(k, v) returns true,
\* and getLocalStorage(k, d) returns the JSON value v last written under k,
\* null, false, 0, "" and [] included and whatever d is, and returns d for a
\* key never written or removed since; a write to k leaves the items of the
\* other keys as they were.
C38_StoreRoundTrip ==
    [][/\ call'.op = "setLocalStorage" =>
             /\ call'.ret = TRUE
             /\ \A key \in TextKeys \ {call'.key} : storage'[key] = storage[key]
       /\ call'.op = "getLocalStorage" =>
             call'.ret = IF lastSaved[call'.key] = NothingWritten THEN call'.defaultValue
                         ELSE lastSaved[call'.key].value]_vars

\* The empty string was read back with another default, next to an item of
\* the other key.
C38_Witness ==
    /\ call.op = "getLocalStorage" /\ call.key = "k"
    /\ call.defaultValue = JStr(<<"d">>)
    /\ lastSaved["k"] = Written(JStr(<<>>))
    /\ call.ret = JStr(<<>>)
    /\ storage["k"] = Text(<<Quote, Quote>>)
    /\ storage["other"] = Text(<<"n", "u", "l", "l">>)

\* The default was returned for a key whose item was removed.
DefaultAfterRemove ==
    /\ call.op = "getLocalStorage" /\ call.key = "k"
    /\ call.ret = [t |-> "default"]
    /\ storage["k"] = NoText /\ storage["other"] # NoText

\* A customer or an address that is neither null nor undefined.
HasValue(x) == x \notin {Null, Undefined}

\* C33: for a selector returned by initCustomerSelector, in a form with or
\* without address select and container, after any sequence of customer and
\* address changes, selectCustomer and refresh calls: when getSelectedAddress()
\* is non-null, getSelectedCustomer() is non-null and the address is one of that
\* customer's normalized addresses; getSelectedData() is non-null exactly when
\* both are; refresh and the empty customer option leave both null.
C33_SelectorConsistent ==
    custSel.made =>
        /\ HasValue(custSel.currentAddress) =>
              /\ HasValue(custSel.currentCustomer)
              /\ \E i \in 1..Len(normalizeCustomer(custSel.currentCustomer)["addresses"]) :
                    normalizeCustomer(custSel.currentCustomer)["addresses"][i]
                        = custSel.currentAddress
        /\ getSelectedData(custSel) # Null
              <=> (HasValue(custSel.currentCustomer) /\ HasValue(custSel.currentAddress))
        /\ (\/ custSel.event.type = "refresh"
            \/ custSel.event.type = "customer" /\ custSel.event.value = EmptyOption)
              => custSel.currentCustomer = Null /\ custSel.currentAddress = Null

\* In a form with an address select and no container, Cole was chosen after
\* Bolt's second address: getSelectedData() pairs Cole with Bolt's address.
AddressOfPreviousCustomer ==
    /\ custSel.made /\ custSel.hasSelect /\ ~custSel.hasContainer
    /\ HasValue(custSel.currentCustomer)
    /\ custSel.currentCustomer["name"] = "Cole"
    /\ custSel.currentAddress = SelectorDatabase[2]["addresses"][2]
    /\ getSelectedData(custSel) # Null

\* The same formula for forms that have both the address select and the
\* address container, or no address select.
SelectorConsistentInFullForm ==
    (custSel.made /\ (custSel.hasContainer \/ ~custSel.hasSelect)) => C33_SelectorConsistent

\* C36: the function returned by debounce(func, wait) invokes func only once
\* wait has elapsed since the most recent call, with the arguments of that
\* call and never while the delay of a newer call is running; calls made
\* before the delay of the previous one expired lead to exactly one invocation:
\* none while the last delay runs, one once it has run out.
C36_Debounce ==
    debouncer.made =>
        /\ debouncer.event.type = "func" =>
              /\ debouncer.event.age >= debouncer.wait
              /\ debouncer.event.args = debouncer.calls[Len(debouncer.calls)]
              /\ ~debouncer.event.newer
        /\ debouncer.timers # {} =>
              debouncer.invocations = 0 /\ Cardinality(debouncer.timers) = 1
        /\ (debouncer.timers = {} /\ debouncer.calls # <<>>) => debouncer.invocations = 1

\* Three calls, each before the delay of the one before ran out, then func
\* invoked with the arguments of the third.
C36_Witness ==
    /\ debouncer.made /\ debouncer.wait = 2
    /\ debouncer.calls = <<"x", "x", "y">>
    /\ debouncer.event.type = "func" /\ debouncer.event.args = "y"
    /\ debouncer.event.age = 2
    /\ debouncer.invocations = 1 /\ debouncer.timers = {}

=============================================================================
